---- MODULE Spec2Model ----
(***************************************************************************)
(* poly2block: the sparse voxel grid, the CIELAB colour matcher and the    *)
(* colour-application stage of the conversion pipeline, as state machine.  *)
(*                                                                         *)
(* Numbers.  Colours are triples of 8-bit integers.  The dithering error   *)
(* buffer holds float64 values that are always integer multiples of 1/16   *)
(* (a quantization error is a difference of two uint8 values and the      *)
(* weights are k/16), so it is kept exactly, in sixteenths.                *)
(***************************************************************************)
EXTENDS Integers, Sequences, FiniteSets, TLC

\* Number of SetVoxel calls a caller makes on a grid it builds by hand.
MaxOps == 2

\* Sizes handed to NewVoxelGrid, and coordinates handed to SetVoxel (one
\* below and one above every size, so that each bound check can fail).
Sizes == 0..2
Coords == -1..2

Gray == <<128, 128, 128>>
White == <<255, 255, 255>>
Black == <<0, 0, 0>>
VoxelColors == {Gray, White}

VARIABLES
    pc,          \* where the caller is: "start", "build", "mesh", "dither", "exported", ...
    heap,        \* the VoxelGrid objects allocated so far, by address 1..Len(heap)
    grid,        \* the caller's *VoxelGrid (0: nil)
    vgp,         \* VoxelGridToSchematic's local vg: the address it exports
    resp,        \* applyDithering's local result: the address it fills (0: none)
    palette,     \* CIELABMatcher.palette, the matcher's current palette
    config,      \* the PipelineConfig of the VoxelGridToSchematic call
    errorBuffer, \* applyDithering's errorBuffer, in sixteenths
    pos,         \* applyDithering's loop indices <<x, y, z>>
    mesh,        \* the caller's Mesh
    meshIn,      \* history: the Mesh as it was when Voxelize was called
    thr,         \* the invocations running concurrently on one Pipeline
    processed,   \* history: the cells applyDithering called the matcher for, in order
    vconfig,     \* the VoxelizationConfig of the Voxelize call
    verr,        \* the error Voxelize returned ("": nil)
    doc,         \* the schematic document written
    nops,        \* number of SetVoxel calls made by the caller
    written,     \* history: cell -> colours of the caller's in-bounds SetVoxel calls there
    lastCall,    \* history: "in"/"out" after a SetVoxel call inside/outside the bounds
    matchLog,    \* history: cell -> the matcher call made for the voxel at that cell
    voxPalette,  \* VOXExporterImpl.Export's local palette: colour -> index
    voxFile,     \* the bytes the VOX exporter wrote
    voxFile2,    \* the bytes a second export of the same grid wrote
    voxIn,       \* the bytes handed to the VOX importer
    voxErr,      \* the error the VOX importer returned ("": nil)
    voxOut,      \* the grid the VOX importer returned (0: nil)
    tex          \* the TextureExtractor's table and the call of resolveTexture in progress

\* The state of the VOX codec.
voxvars == <<voxPalette, voxFile, voxFile2, voxIn, voxErr, voxOut>>

\* The state of the grid, voxelizer, matcher and schematic part.
corevars == <<pc, heap, grid, vgp, resp, palette, config, errorBuffer, pos, mesh, meshIn,
              vconfig, verr, doc, nops, written, lastCall, matchLog>>

vars == <<pc, heap, grid, vgp, resp, palette, config, errorBuffer, pos, mesh, meshIn, thr,
          processed, vconfig, verr, doc, nops, written, lastCall, matchLog,
          voxPalette, voxFile, voxFile2, voxIn, voxErr, voxOut, tex>>

(***************************************************************************)
(* Sparse maps.                                                            *)
(***************************************************************************)
EmptyMap == [k \in {} |-> 0]

MapPut(f, k, v) == [q \in (DOMAIN f) \cup {k} |-> IF q = k THEN v ELSE f[q]]

(***************************************************************************)
(* VoxelGrid.                                                              *)
(***************************************************************************)
\* NewVoxelGrid: an empty grid, Scale 1.0 (kept as the fraction <<1, 1>>),
\* Origin the zero vector.
NewVoxelGrid(sizeX, sizeY, sizeZ) ==
    [SizeX |-> sizeX, SizeY |-> sizeY, SizeZ |-> sizeZ,
     Voxels |-> EmptyMap, Scale |-> <<1, 1>>, Origin |-> <<0, 0, 0>>]

InBounds(vg, x, y, z) ==
    /\ x >= 0 /\ x < vg.SizeX
    /\ y >= 0 /\ y < vg.SizeY
    /\ z >= 0 /\ z < vg.SizeZ

\* SetVoxel with the bounds check left out.
SetVoxelUnchecked(vg, x, y, z, color) ==
    [vg EXCEPT !.Voxels = MapPut(@, <<x, y, z>>, [X |-> x, Y |-> y, Z |-> z, Color |-> color])]

\* SetVoxel that keeps the voxel already stored at an occupied cell.
SetVoxelKeepFirst(vg, x, y, z, color) ==
    IF InBounds(vg, x, y, z) /\ <<x, y, z>> \notin DOMAIN vg.Voxels
    THEN [vg EXCEPT !.Voxels = MapPut(@, <<x, y, z>>, [X |-> x, Y |-> y, Z |-> z, Color |-> color])]
    ELSE vg

SetVoxel(vg, x, y, z, color) ==
    IF InBounds(vg, x, y, z)
    THEN [vg EXCEPT !.Voxels = MapPut(@, <<x, y, z>>, [X |-> x, Y |-> y, Z |-> z, Color |-> color])]
    ELSE vg

HasVoxel(vg, x, y, z) == <<x, y, z>> \in DOMAIN vg.Voxels

\* GetVoxel returns a *Voxel; nil is the record NilVoxel.
NilVoxel == [X |-> -1, Y |-> -1, Z |-> -1, Color |-> <<-1, -1, -1>>]

GetVoxel(vg, x, y, z) ==
    IF <<x, y, z>> \in DOMAIN vg.Voxels THEN vg.Voxels[<<x, y, z>>] ELSE NilVoxel

Count(vg) == Cardinality(DOMAIN vg.Voxels)

(***************************************************************************)
(* Colour space engine.  RGBToLAB and DeltaE delegate to the go-colorful   *)
(* library, which is not part of the repository; its real-valued CIELAB    *)
(* and CIEDE2000 are stood in for by an integer opponent-colour transform  *)
(* (lightness, red-green, yellow-blue) and the squared distance in it.     *)
(* What the matcher relies on is kept: the conversion is a function of the *)
(* colour alone, and the distance is finite, non-negative and zero between *)
(* equal LAB values.                                                       *)
(***************************************************************************)
RGBToLAB(rgb) ==
    [L |-> (299 * rgb[1] + 587 * rgb[2] + 114 * rgb[3]) \div 1000,
     A |-> rgb[1] - rgb[2],
     B |-> (rgb[1] + rgb[2]) \div 2 - rgb[3]]

DeltaE(lab1, lab2) ==
    (lab1.L - lab2.L) * (lab1.L - lab2.L)
    + (lab1.A - lab2.A) * (lab1.A - lab2.A)
    + (lab1.B - lab2.B) * (lab1.B - lab2.B)

\* math.MaxFloat64: above every distance DeltaE yields.
MaxFloat64 == 2^30

(***************************************************************************)
(* Palettes.  A *Palette is a record; IsNil marks the nil pointer.  The    *)
(* Metadata map is kept as its "block_id" entry (HasBlockID: present and a *)
(* string).                                                                *)
(***************************************************************************)
NilPalette == [IsNil |-> TRUE, Colors |-> <<>>]

MinecraftBlock(id, rgb) == [ID |-> id, RGB |-> rgb]

\* GenerateMinecraftPalette: one entry per block, LAB computed from RGB.
GenerateMinecraftPalette(blocks) ==
    [IsNil |-> FALSE,
     Colors |-> [i \in 1..Len(blocks) |->
                    [Name |-> blocks[i].ID, RGB |-> blocks[i].RGB,
                     LAB |-> RGBToLAB(blocks[i].RGB),
                     HasBlockID |-> TRUE, BlockID |-> blocks[i].ID]]]

EmptyPalette == GenerateMinecraftPalette(<<>>)

PaletteBW ==
    GenerateMinecraftPalette(<<MinecraftBlock("minecraft:black_concrete", Black),
                               MinecraftBlock("minecraft:white_concrete", White)>>)

\* A palette as ImportPalette can return it: two entries of one colour under
\* different names (a tie for every target), one of them without block_id
\* and two of them with the same block_id.
PaletteDup ==
    [IsNil |-> FALSE,
     Colors |-> <<[Name |-> "snow", RGB |-> White, LAB |-> RGBToLAB(White),
                   HasBlockID |-> FALSE, BlockID |-> ""],
                  [Name |-> "minecraft:black_wool", RGB |-> Black, LAB |-> RGBToLAB(Black),
                   HasBlockID |-> TRUE, BlockID |-> "minecraft:black_wool"],
                  [Name |-> "minecraft:white_wool", RGB |-> White, LAB |-> RGBToLAB(White),
                   HasBlockID |-> TRUE, BlockID |-> "minecraft:white_wool"],
                  [Name |-> "coal", RGB |-> Black, LAB |-> RGBToLAB(Black),
                   HasBlockID |-> TRUE, BlockID |-> "minecraft:black_wool"]>>]

Palettes == {NilPalette, EmptyPalette, PaletteBW, PaletteDup}

(***************************************************************************)
(* CIELABMatcher.  A *PaletteColor is the entry's index in Colors; nil is  *)
(* index 0.                                                                *)
(***************************************************************************)
RECURSIVE MatchScanLast(_, _, _, _, _)
\* The scan with <= in place of <: a later entry at the same distance wins.
MatchScanLast(colors, targetLAB, i, bestMatch, bestDistance) ==
    IF i > Len(colors) THEN bestMatch
    ELSE LET distance == DeltaE(targetLAB, colors[i].LAB)
         IN  IF distance <= bestDistance
             THEN MatchScanLast(colors, targetLAB, i + 1, i, distance)
             ELSE MatchScanLast(colors, targetLAB, i + 1, bestMatch, bestDistance)

RECURSIVE MatchScan(_, _, _, _, _)
\* The loop of Match from entry i on.
MatchScan(colors, targetLAB, i, bestMatch, bestDistance) ==
    IF i > Len(colors) THEN bestMatch
    ELSE LET distance == DeltaE(targetLAB, colors[i].LAB)
         IN  IF distance < bestDistance
             THEN MatchScan(colors, targetLAB, i + 1, i, distance)
             ELSE MatchScan(colors, targetLAB, i + 1, bestMatch, bestDistance)

\* Match whose scan starts from a best distance of zero.
MatchZeroBest(pal, rgb) ==
    IF pal.IsNil \/ Len(pal.Colors) = 0 THEN 0
    ELSE MatchScan(pal.Colors, RGBToLAB(rgb), 1, 0, 0)

Match(pal, rgb) ==
    IF pal.IsNil \/ Len(pal.Colors) = 0 THEN 0
    ELSE MatchScan(pal.Colors, RGBToLAB(rgb), 1, 0, MaxFloat64)

\* clampUint8 rounding to the nearest integer.
clampUint8Round(v) ==
    IF v < 0 THEN 0
    ELSE IF v > 255 * 16 THEN 255
    ELSE (v + 8) \div 16

\* clampUint8 of a float64 given in sixteenths; uint8(v) truncates.
clampUint8(v) ==
    IF v < 0 THEN 0
    ELSE IF v > 255 * 16 THEN 255
    ELSE v \div 16

\* MatchWithDithering: rgb is the voxel colour, error the accumulated error
\* in sixteenths.  Returns the match and the quantization error (integers).
MatchWithDithering(pal, rgb, error) ==
    LET adjustedRGB == <<clampUint8(16 * rgb[1] + error[1]),
                         clampUint8(16 * rgb[2] + error[2]),
                         clampUint8(16 * rgb[3] + error[3])>>
        matched == Match(pal, adjustedRGB)
    IN  IF matched = 0
        THEN [matched |-> 0, quantError |-> <<0, 0, 0>>, adjustedRGB |-> adjustedRGB]
        ELSE [matched |-> matched,
              quantError |-> <<adjustedRGB[1] - pal.Colors[matched].RGB[1],
                               adjustedRGB[2] - pal.Colors[matched].RGB[2],
                               adjustedRGB[3] - pal.Colors[matched].RGB[3]>>,
              adjustedRGB |-> adjustedRGB]

(***************************************************************************)
(* Meshes and the surface voxelizer.  Vertex positions are integers; a     *)
(* scale is the fraction <<n, d>> in lowest terms, and a point of voxel    *)
(* space is kept as its three numerators over the scale's d.  With the     *)
(* meshes that have faces and the configurations below every float64 the   *)
(* code computes is a small multiple of a power of two, so this arithmetic *)
(* is the code's.  The scale <<n, d>> stands for the float64 nearest to    *)
(* n / d, and the grid size is computed from it with float64's rounding    *)
(* (CeilMul).                                                              *)
(* A diffuse colour channel is kept in halves (0, 1, 2 for 0, 0.5, 1.0).   *)
(***************************************************************************)
Zero3 == <<0, 0, 0>>

Min2(a, b) == IF a < b THEN a ELSE b
Max2(a, b) == IF a > b THEN a ELSE b

\* math.Floor and math.Ceil of a / d, d > 0.
FloorDiv(a, d) == a \div d
CeilDiv(a, d) == -((-a) \div d)

RECURSIVE Gcd(_, _)
Gcd(a, b) == IF b = 0 THEN a ELSE Gcd(b, a % b)

Frac(n, d) == <<n \div Gcd(n, d), d \div Gcd(n, d)>>

RECURSIVE BoundsScan(_, _, _)
\* The loop of CalculateBounds over Vertices[i..].
BoundsScan(vertices, i, b) ==
    IF i > Len(vertices) THEN b
    ELSE BoundsScan(vertices, i + 1,
             [Min |-> [k \in 1..3 |-> Min2(b.Min[k], vertices[i][k])],
              Max |-> [k \in 1..3 |-> Max2(b.Max[k], vertices[i][k])]])

\* CalculateBounds that leaves Max at the first vertex.
CalculateBoundsMinOnly(m) ==
    IF Len(m.Vertices) = 0 THEN m
    ELSE [m EXCEPT !.Bounds =
             [Min |-> BoundsScan(m.Vertices, 2,
                                 [Min |-> m.Vertices[1], Max |-> m.Vertices[1]]).Min,
              Max |-> m.Vertices[1]]]

\* Mesh.CalculateBounds: the mesh with Bounds recomputed.
CalculateBounds(m) ==
    IF Len(m.Vertices) = 0 THEN m
    ELSE [m EXCEPT !.Bounds =
             BoundsScan(m.Vertices, 2, [Min |-> m.Vertices[1], Max |-> m.Vertices[1]])]

\* worldToVoxel: numerators over grid.Scale[2].
worldToVoxel(world, vg) ==
    [k \in 1..3 |-> (world[k] - vg.Origin[k]) * vg.Scale[1]]

sub3(a, b) == <<a[1] - b[1], a[2] - b[2], a[3] - b[3]>>

cross3(a, b) ==
    <<a[2] * b[3] - a[3] * b[2],
      a[3] * b[1] - a[1] * b[3],
      a[1] * b[2] - a[2] * b[1]>>

dot3(a, b) == a[1] * b[1] + a[2] * b[2] + a[3] * b[3]

Abs(a) == IF a < 0 THEN -a ELSE a

\* sign(p1, p2, p3) of pointInTriangle2D; any common positive scaling of the
\* three points keeps its sign.
Sign2D(p1, p2, p3) ==
    (p1[1] - p3[1]) * (p2[2] - p3[2]) - (p2[1] - p3[1]) * (p1[2] - p3[2])

\* pointInTriangle2D on points scaled by 2d.
pointInTriangle2D(p, v0, v1, v2) ==
    LET d1 == Sign2D(p, v0, v1)
        d2 == Sign2D(p, v1, v2)
        d3 == Sign2D(p, v2, v0)
        hasNeg == (d1 < 0) \/ (d2 < 0) \/ (d3 < 0)
        hasPos == (d1 > 0) \/ (d2 > 0) \/ (d3 > 0)
    IN  ~(hasNeg /\ hasPos)

\* voxelIntersectsTriangle for the cell (x, y, z), whose centre is c / 2 with
\* c = (2x+1, 2y+1, 2z+1); v0, v1, v2 are numerators over d.  The normal is
\* over d^2, so dist = |d * (normal . c) - 2 * (normal . v0)| / (2 d^3); the
\* threshold is in thousandths (0.866, and 1.299 when conservative).
voxelIntersectsTriangle(x, y, z, v0, v1, v2, d, conservative) ==
    LET c == <<2 * x + 1, 2 * y + 1, 2 * z + 1>>
        normal == cross3(sub3(v1, v0), sub3(v2, v0))
        dist == Abs(d * dot3(normal, c) - 2 * dot3(normal, v0))
        threshold == IF conservative THEN 1299 ELSE 866
    IN  IF dist * 1000 > threshold * 2 * d * d * d THEN FALSE
        ELSE pointInTriangle2D(<<d * c[1], d * c[2]>>,
                               <<2 * v0[1], 2 * v0[2]>>,
                               <<2 * v1[1], 2 * v1[2]>>,
                               <<2 * v2[1], 2 * v2[2]>>)

Min3(v0, v1, v2, k) == Min2(v0[k], Min2(v1[k], v2[k]))
Max3(v0, v1, v2, k) == Max2(v0[k], Max2(v1[k], v2[k]))

RECURSIVE SetCells(_, _, _)
\* grid.SetVoxel(x, y, z, color) for every cell of a set; the cells are
\* distinct, so the order of the scan does not show in the result.
SetCells(vg, cells, color) ==
    IF cells = {} THEN vg
    ELSE LET p == CHOOSE k \in cells : TRUE
         IN  SetCells(SetVoxel(vg, p[1], p[2], p[3], color), cells \ {p}, color)

\* The cells rasterizeTriangle marks: those of the clamped bounding box of
\* the triangle whose centre passes voxelIntersectsTriangle.
TriangleCells(vg, w0, w1, w2, conservative) ==
    LET d == vg.Scale[2]
        v0 == worldToVoxel(w0, vg)
        v1 == worldToVoxel(w1, vg)
        v2 == worldToVoxel(w2, vg)
        minX == Max2(0, FloorDiv(Min3(v0, v1, v2, 1), d))
        maxX == Min2(vg.SizeX - 1, CeilDiv(Max3(v0, v1, v2, 1), d))
        minY == Max2(0, FloorDiv(Min3(v0, v1, v2, 2), d))
        maxY == Min2(vg.SizeY - 1, CeilDiv(Max3(v0, v1, v2, 2), d))
        minZ == Max2(0, FloorDiv(Min3(v0, v1, v2, 3), d))
        maxZ == Min2(vg.SizeZ - 1, CeilDiv(Max3(v0, v1, v2, 3), d))
    IN  {p \in (minX..maxX) \X (minY..maxY) \X (minZ..maxZ) :
            voxelIntersectsTriangle(p[1], p[2], p[3], v0, v1, v2, d, conservative)}

rasterizeTriangle(vg, w0, w1, w2, color, conservative) ==
    SetCells(vg, TriangleCells(vg, w0, w1, w2, conservative), color)

\* The material colour of a face: uint8(DiffuseColor[k] * 255), or the
\* default gray when the face has no material.
FaceColor(m, face) ==
    IF face.MaterialIndex >= 0 /\ face.MaterialIndex < Len(m.Materials)
    THEN [k \in 1..3 |-> (m.Materials[face.MaterialIndex + 1][k] * 255) \div 2]
    ELSE Gray

RECURSIVE VoxelizeFacesReversed(_, _, _, _)
\* The loop taking the faces from the last to the first.
VoxelizeFacesReversed(vg, m, i, conservative) ==
    IF i > Len(m.Faces) THEN vg
    ELSE LET face == m.Faces[i]
             rest == VoxelizeFacesReversed(vg, m, i + 1, conservative)
         IN  IF Len(face.VertexIndices) < 3 THEN rest
             ELSE rasterizeTriangle(rest,
                      m.Vertices[face.VertexIndices[1] + 1],
                      m.Vertices[face.VertexIndices[2] + 1],
                      m.Vertices[face.VertexIndices[3] + 1],
                      FaceColor(m, face), conservative)

RECURSIVE VoxelizeFaces(_, _, _, _)
\* The loop of Voxelize over Faces[i..].  Vertex indices count from 0.
VoxelizeFaces(vg, m, i, conservative) ==
    IF i > Len(m.Faces) THEN vg
    ELSE LET face == m.Faces[i]
         IN  IF Len(face.VertexIndices) < 3
             THEN VoxelizeFaces(vg, m, i + 1, conservative)
             ELSE VoxelizeFaces(
                      rasterizeTriangle(vg,
                          m.Vertices[face.VertexIndices[1] + 1],
                          m.Vertices[face.VertexIndices[2] + 1],
                          m.Vertices[face.VertexIndices[3] + 1],
                          FaceColor(m, face), conservative),
                      m, i + 1, conservative)

RECURSIVE Float64Exp(_, _)
\* The j with d <= n * 2^j < 2d, for n, d > 0: float64(n) / d has the
\* 53-bit mantissa n * 2^(52 + j) / d rounded.
Float64Exp(n, d) ==
    IF n < d THEN Float64Exp(2 * n, d) + 1
    ELSE IF n >= 2 * d THEN Float64Exp(n, 2 * d) - 1
    ELSE 0

RECURSIVE Pow2Mod(_, _)
\* 2^k mod d, by repeated squaring.
Pow2Mod(k, d) ==
    IF k = 0 THEN 1 % d
    ELSE LET h == Pow2Mod(k \div 2, d)
         IN  (h * h * (IF k % 2 = 1 THEN 2 ELSE 1)) % d

\* (r * 2^k) mod d.
ShiftMod(r, d, k) == (r * Pow2Mod(k, d)) % d

\* float64 division n / d, round to nearest even: with k = 52 + j and M the
\* mantissa chosen, the remainder n * 2^k - d * M (negative when the quotient
\* was rounded up, zero when n / d is a float64).
QuotientRemainder(n, d) ==
    LET k == 52 + Float64Exp(n, d)
        r == ShiftMod(n % d, d, k)
        odd == (2 * ShiftMod(n % d, d, k - 1)) \div d = 1
    IN  IF 2 * r > d \/ (2 * r = d /\ odd) THEN r - d ELSE r

RECURSIVE BitLen(_)
BitLen(m) == IF m = 0 THEN 0 ELSE BitLen(m \div 2) + 1

RECURSIVE Pow2(_)
Pow2(e) == IF e = 0 THEN 1 ELSE 2 * Pow2(e - 1)

\* int(math.Ceil(a * scale)) for an extent a >= 0 and scale the float64
\* nearest to n / d (a, n, d below 2^10).  When a * n / d is not whole the
\* roundings cannot carry the product across a whole number.  When it is a
\* whole number m and the quotient was rounded up, the product is above m by
\* a * |rho| / (d * 2^k), and float64 keeps it above m when that exceeds
\* half the spacing 2^(BitLen(m) - 53) of the float64s above m.
CeilMul(a, scale) ==
    LET n == scale[1]
        d == scale[2]
        rho == QuotientRemainder(n, d)
        m == (a * n) \div d
        e == 52 + Float64Exp(n, d) + BitLen(m) - 54
    IN  IF a = 0 THEN 0
        ELSE IF (a * n) % d # 0 THEN CeilDiv(a * n, d)
        ELSE IF rho >= 0 \/ e > 20 THEN m
        ELSE IF e >= 0
             THEN (IF a * (-rho) > d * Pow2(e) THEN m + 1 ELSE m)
             ELSE (IF a * (-rho) * Pow2(-e) > d THEN m + 1 ELSE m)

NoGrid == NewVoxelGrid(-1, -1, -1)

\* Voxelize that rejects a mesh only when it has no vertices.
VoxelizeNoSizeCheck(m, cfg) ==
    IF Len(m.Vertices) = 0
    THEN [err |-> "mesh has no vertices", grid |-> NoGrid, mesh |-> m]
    ELSE [err |-> "", grid |-> NewVoxelGrid(0, 0, 0), mesh |-> m]

\* SurfaceVoxelizer.Voxelize(mesh, config): the error ("" for nil), the grid
\* returned (NoGrid for nil) and the mesh as the call leaves it.
Voxelize(m, cfg) ==
    IF Len(m.Vertices) = 0
    THEN [err |-> "mesh has no vertices", grid |-> NoGrid, mesh |-> m]
    ELSE LET m1 == IF m.Bounds.Min = Zero3 /\ m.Bounds.Max = Zero3
                   THEN CalculateBounds(m) ELSE m
             dims == sub3(m1.Bounds.Max, m1.Bounds.Min)
             maxDim == Max2(dims[1], Max2(dims[2], dims[3]))
         IN  IF maxDim = 0
             THEN [err |-> "mesh has zero size", grid |-> NoGrid, mesh |-> m1]
             ELSE LET scale == IF cfg.Scale[1] > 0 THEN cfg.Scale
                               ELSE Frac(cfg.Resolution, maxDim)
                      vg == [NewVoxelGrid(CeilMul(dims[1], scale),
                                          CeilMul(dims[2], scale),
                                          CeilMul(dims[3], scale))
                                EXCEPT !.Scale = scale, !.Origin = m1.Bounds.Min]
                  IN  [err |-> "",
                       grid |-> VoxelizeFaces(vg, m1, 1, cfg.Conservative),
                       mesh |-> m1]

Mesh(vertices, faces, materials) ==
    [Vertices |-> vertices, Faces |-> faces, Materials |-> materials,
     Bounds |-> [Min |-> Zero3, Max |-> Zero3]]

Face(vertexIndices, materialIndex) ==
    [VertexIndices |-> vertexIndices, MaterialIndex |-> materialIndex]

NoMesh == Mesh(<<>>, <<>>, <<>>)

\* A point, the same point three times, a segment, a flat triangle, and
\* three meshes with volume (faces with a material, with none, with a
\* material index past the table, and one with fewer than three vertices).
\* MeshSlab has two triangles through the middle of a layer of cells.
MeshPoint == Mesh(<<<<1, 2, 0>>>>, <<>>, <<>>)
MeshPoint3 ==
    Mesh(<<<<1, 1, 1>>, <<1, 1, 1>>, <<1, 1, 1>>>>, <<Face(<<0, 1, 2>>, -1)>>, <<>>)
MeshLine == Mesh(<<<<0, 0, 0>>, <<0, 2, 0>>>>, <<>>, <<>>)
MeshFlat ==
    Mesh(<<<<0, 0, 0>>, <<2, 0, 0>>, <<0, 2, 0>>>>, <<Face(<<0, 1, 2>>, 0)>>,
         <<<<2, 2, 2>>>>)
MeshSolid ==
    Mesh(<<<<0, 0, 0>>, <<2, 0, 0>>, <<0, 2, 0>>, <<0, 0, 2>>, <<2, 2, 2>>>>,
         <<Face(<<0, 1, 2>>, 0), Face(<<0, 1>>, 0), Face(<<1, 2, 4>>, 1),
           Face(<<0, 1, 3>>, 5)>>,
         <<<<2, 2, 2>>, <<2, 1, 0>>>>)
MeshOffset ==
    Mesh(<<<<1, 1, 1>>, <<2, 1, 1>>, <<1, 2, 1>>, <<1, 1, 2>>>>,
         <<Face(<<0, 1, 2>>, -1), Face(<<0, 2, 3>>, 0)>>,
         <<<<2, 2, 2>>>>)

MeshSlab ==
    Mesh(<<<<0, 0, 0>>, <<0, 0, 2>>, <<0, 0, 1>>, <<4, 0, 1>>, <<0, 4, 1>>, <<2, 0, 1>>>>,
         <<Face(<<2, 3, 4>>, 0), Face(<<2, 5, 4>>, 1)>>,
         <<<<2, 2, 2>>, <<1, 1, 1>>>>)

\* Two vertices far apart along x and no faces.
MeshLong == Mesh(<<<<0, 0, 0>>, <<187, 1, 1>>>>, <<>>, <<>>)

Meshes ==
    {NoMesh, MeshPoint, MeshPoint3, MeshLine, MeshFlat, MeshSolid, MeshOffset, MeshSlab,
     MeshLong}

\* Largest Resolution asked of the voxelizer.
MaxResolution == 3

\* Scale overrides: none (0 and a negative value), 1.0 and 0.5.
ScaleOverrides == {<<0, 1>>, <<-1, 1>>, <<1, 1>>, <<1, 2>>}

VoxelizationConfigs ==
    [Resolution : 1..MaxResolution, Scale : ScaleOverrides, Conservative : BOOLEAN]

NoVoxelizationConfig == [Resolution |-> 1, Scale |-> <<0, 1>>, Conservative |-> FALSE]

(***************************************************************************)
(* Schematic codec.  The document is the NBT compound Export builds; gzip  *)
(* and the NBT encoding (go-mc's) are taken to give back what was put in.  *)
(***************************************************************************)
\* int16(v) and byte(v).
Int16(v) == ((v + 32768) % 65536) - 32768
Byte(v) == v % 256

\* The block ID Export files a palette entry under.
EntryBlockID(color) == IF color.HasBlockID THEN color.BlockID ELSE "minecraft:white_concrete"

RECURSIVE BlockPaletteScanNoCheck(_, _, _)
\* The loop without the test for a block ID already in the map.
BlockPaletteScanNoCheck(colors, i, st) ==
    IF i > Len(colors) THEN st
    ELSE LET blockID == EntryBlockID(colors[i])
         IN  BlockPaletteScanNoCheck(colors, i + 1,
                 [blockPalette |-> MapPut(st.blockPalette, blockID, st.paletteIndex),
                  paletteIndex |-> st.paletteIndex + 1])

RECURSIVE BlockPaletteScan(_, _, _)
\* The loop of Export over palette.Colors[i..]; st holds blockPalette and
\* paletteIndex.
BlockPaletteScan(colors, i, st) ==
    IF i > Len(colors) THEN st
    ELSE LET blockID == EntryBlockID(colors[i])
         IN  BlockPaletteScan(colors, i + 1,
                 IF blockID \in DOMAIN st.blockPalette THEN st
                 ELSE [blockPalette |-> MapPut(st.blockPalette, blockID, st.paletteIndex),
                       paletteIndex |-> st.paletteIndex + 1])

\* blockPalette and paletteIndex when Export has built the palette mapping.
BlockPaletteState(pal) ==
    LET air == [blockPalette |-> MapPut(EmptyMap, "minecraft:air", 0), paletteIndex |-> 1]
    IN  IF pal.IsNil
        THEN [blockPalette |-> MapPut(air.blockPalette, "minecraft:white_concrete", 1),
              paletteIndex |-> 2]
        ELSE BlockPaletteScan(pal.Colors, 1, air)

BlockPalette(pal) == BlockPaletteState(pal).blockPalette

\* The byte Export stores for a voxel (0: the cell is left as air).
BlockByte(pal, bp, voxel) ==
    IF pal.IsNil THEN 1
    ELSE LET matched == Match(pal, voxel.Color)
         IN  IF matched # 0 /\ pal.Colors[matched].HasBlockID
                /\ pal.Colors[matched].BlockID \in DOMAIN bp
             THEN Byte(bp[pal.Colors[matched].BlockID])
             ELSE 0

\* SchematicExporterImpl.Export: the document written.  BlockData[i + 1] is
\* the byte at index i; each voxel writes at the index computed from its own
\* X, Y, Z fields.
Export(vg, pal) ==
    LET bp == BlockPalette(pal)
        size == vg.SizeX * vg.SizeY * vg.SizeZ
        Index(v) == v.Y + v.Z * vg.SizeY + v.X * vg.SizeY * vg.SizeZ
    IN  [Version |-> 2, DataVersion |-> 2975,
         Width |-> Int16(vg.SizeX), Height |-> Int16(vg.SizeY), Length |-> Int16(vg.SizeZ),
         Palette |-> bp, PaletteMax |-> BlockPaletteState(pal).paletteIndex,
         BlockData |-> [i \in 1..size |->
             IF \E k \in DOMAIN vg.Voxels : Index(vg.Voxels[k]) = i - 1
             THEN BlockByte(pal, bp,
                      vg.Voxels[CHOOSE k \in DOMAIN vg.Voxels : Index(vg.Voxels[k]) = i - 1])
             ELSE 0]]

NoDoc ==
    [Version |-> 0, DataVersion |-> 0, Width |-> 0, Height |-> 0, Length |-> 0,
     Palette |-> EmptyMap, PaletteMax |-> 0, BlockData |-> <<>>]

\* SchematicImporterImpl.Import of a document: the grid returned.
Import(d) ==
    LET vg == NewVoxelGrid(d.Width, d.Height, d.Length)
        cells == {p \in (0..(d.Width - 1)) \X (0..(d.Height - 1)) \X (0..(d.Length - 1)) :
                     LET blockIndex == d.BlockData[p[2] + p[3] * d.Height
                                                   + p[1] * d.Height * d.Length + 1]
                     IN  /\ blockIndex > 0
                         /\ \E blockID \in DOMAIN d.Palette :
                               d.Palette[blockID] = blockIndex /\ blockID # "minecraft:air"}
    IN  SetCells(vg, cells, Gray)

(***************************************************************************)
(* VOX codec.  A file is the sequence of its bytes.  Go visits the voxels  *)
(* of a grid (a map) in an order that is not fixed: each loop of the       *)
(* exporter over vg.Voxels takes the order as a sequence of the keys.      *)
(***************************************************************************)
\* binary.LittleEndian encoding in four bytes (two's complement).
LE32(v) ==
    <<v % 256, (v \div 256) % 256, (v \div 65536) % 256, (v \div 16777216) % 256>>

\* The bytes of "VOX ", "MAIN", "SIZE", "XYZI" and "RGBA".
MagicVOX == <<86, 79, 88, 32>>
IdMAIN == <<77, 65, 73, 78>>
IdSIZE == <<83, 73, 90, 69>>
IdXYZI == <<88, 89, 90, 73>>
IdRGBA == <<82, 71, 66, 65>>

\* writeChunk: id, content size, children size (always written as 0),
\* content, then what childWriter writes.
writeChunk(id, content, children) ==
    id \o LE32(Len(content)) \o LE32(0) \o content \o children

\* The palette Export builds when it visits the voxels in the given order.
\* The k-th new colour met is entered with paletteIndex = k; paletteIndex is
\* a uint8 that wraps to 0 after the 255th entry, where the loop breaks, so
\* the colours met later are not entered.  (colors, isFirst and rank are
\* sequences over the iterations of the loop.)
VoxPalette(vg, order) ==
    LET n == Len(order)
        colors == [i \in 1..n |-> vg.Voxels[order[i]].Color] \o <<>>
        isFirst == [i \in 1..n |-> \A j \in 1..(i - 1) : colors[j] # colors[i]] \o <<>>
        rank == [i \in 1..n |-> Cardinality({j \in 1..i : isFirst[j]})] \o <<>>
        entered == {i \in 1..n : isFirst[i] /\ rank[i] <= 255}
    IN  [color \in {colors[i] : i \in entered} |->
            rank[CHOOSE i \in entered : colors[i] = color]] @@ EmptyMap

\* palette[color] of a Go map: the zero value when the key is absent.
VoxPaletteAt(pal, color) == IF color \in DOMAIN pal THEN pal[color] ELSE 0

writeSizeChunk(vg) ==
    writeChunk(IdSIZE, LE32(vg.SizeX) \o LE32(vg.SizeY) \o LE32(vg.SizeZ), <<>>)

\* writeXYZIChunk, visiting the voxels in the given order.
writeXYZIChunk(vg, pal, order) ==
    LET numVoxels == Count(vg)
        xyziData == LE32(numVoxels) \o
            [i \in 1..(4 * numVoxels) |->
                LET voxel == vg.Voxels[order[((i - 1) \div 4) + 1]]
                    k == (i - 1) % 4
                IN  IF k = 0 THEN Byte(voxel.X)
                    ELSE IF k = 1 THEN Byte(voxel.Y)
                    ELSE IF k = 2 THEN Byte(voxel.Z)
                    ELSE VoxPaletteAt(pal, voxel.Color)]
    IN  writeChunk(IdXYZI, xyziData, <<>>)

\* writeRGBAChunk: 256 entries (0, 0, 0, 255), then the palette's colours at
\* their indices (the indices are distinct, so the order of the palette map
\* does not show).
writeRGBAChunk(pal) ==
    LET rgbaData ==
            [i \in 1..1024 |->
                LET index == (i - 1) \div 4
                    k == (i - 1) % 4
                IN  IF k = 3 THEN 255
                    ELSE IF \E color \in DOMAIN pal : pal[color] = index
                    THEN (CHOOSE color \in DOMAIN pal : pal[color] = index)[k + 1]
                    ELSE 0]
    IN  writeChunk(IdRGBA, rgbaData, <<>>)

\* VOXExporterImpl.Export after its palette loop has built pal: the bytes
\* written, with writeXYZIChunk visiting the voxels in xyziOrder.
VoxExport(vg, pal, xyziOrder) ==
    MagicVOX \o LE32(150) \o
    writeChunk(IdMAIN, <<>>,
               writeSizeChunk(vg) \o writeXYZIChunk(vg, pal, xyziOrder)
                   \o writeRGBAChunk(pal))

\* The error of an io.ReadFull that wants `want` bytes and has `have` left.
ReadFullErr(have, want) ==
    IF have >= want THEN "" ELSE IF have = 0 THEN "EOF" ELSE "unexpected EOF"

\* VOXImporterImpl.Import of the bytes r: the error and the grid returned
\* (address 0: nil).
VoxImport(r) ==
    IF ReadFullErr(Len(r), 4) # ""
    THEN [err |-> ReadFullErr(Len(r), 4), grid |-> 0]
    ELSE IF SubSeq(r, 1, 4) # MagicVOX
    THEN [err |-> "invalid VOX file: wrong magic number", grid |-> 0]
    ELSE IF ReadFullErr(Len(r) - 4, 4) # ""
    THEN [err |-> ReadFullErr(Len(r) - 4, 4), grid |-> 0]
    ELSE [err |-> "VOX import not fully implemented yet", grid |-> 0]

\* What matchLog keeps of a call: the voxel colour and accumulated error handed
\* in (error in sixteenths), the colour handed to Match, and what came back.
MatchCall(pal, color, error) ==
    LET m == MatchWithDithering(pal, color, error)
    IN  [color |-> color, error |-> error, adjusted |-> m.adjustedRGB,
         index |-> m.matched, quantError |-> m.quantError]

(***************************************************************************)
(* Pipeline: colour application.  Grids live on the heap and are handled   *)
(* by address, as the *VoxelGrid pointers of the code are.  The loops work *)
(* on a loop state st = [heap, buffer, log].                               *)
(***************************************************************************)
\* &VoxelGrid{...} in NewVoxelGrid: a fresh object at a fresh address.
Alloc(h, vg) == [heap |-> Append(h, vg), addr |-> Len(h) + 1]

\* result := vg in place of a new grid.
NewResultAlias(h, src) == [heap |-> h, addr |-> src]

\* The first three statements of applyColorMatching and of applyDithering.
NewResult(h, src) ==
    Alloc(h, [NewVoxelGrid(h[src].SizeX, h[src].SizeY, h[src].SizeZ)
                 EXCEPT !.Scale = h[src].Scale, !.Origin = h[src].Origin])

\* The body storing the voxel's own colour instead of the matched entry's.
MatchBodyKeepColor(st, src, res, pal, p) ==
    LET voxel == st.heap[src].Voxels[p]
        matched == Match(pal, voxel.Color)
    IN  [st EXCEPT
            !.heap = IF matched # 0
                     THEN [@ EXCEPT ![res] = SetVoxel(@, p[1], p[2], p[3], voxel.Color)]
                     ELSE @,
            !.log = MapPut(@, p, [color |-> voxel.Color, error |-> <<0, 0, 0>>,
                                  adjusted |-> voxel.Color, index |-> matched,
                                  quantError |-> <<0, 0, 0>>])]

\* The loop body of applyColorMatching for the voxel at pos p.
MatchBody(st, src, res, pal, p) ==
    LET voxel == st.heap[src].Voxels[p]
        matched == Match(pal, voxel.Color)
    IN  [st EXCEPT
            !.heap = IF matched # 0
                     THEN [@ EXCEPT ![res] = SetVoxel(@, p[1], p[2], p[3],
                                                      pal.Colors[matched].RGB)]
                     ELSE @,
            !.log = MapPut(@, p, [color |-> voxel.Color, error |-> <<0, 0, 0>>,
                                  adjusted |-> voxel.Color, index |-> matched,
                                  quantError |-> <<0, 0, 0>>])]

RECURSIVE MatchVoxels(_, _, _, _, _)
\* The loop of applyColorMatching over the voxels not yet visited (keys).
\* Go visits a map in no fixed order; the cells are distinct, so every order
\* ends in the same state.
MatchVoxels(st, src, res, pal, keys) ==
    IF keys = {} THEN st
    ELSE LET p == CHOOSE k \in keys : TRUE
         IN  MatchVoxels(MatchBody(st, src, res, pal, p), src, res, pal, keys \ {p})

\* applyColorMatching(vg) on matcher palette pal: the loop state at its end
\* and the address returned.
applyColorMatching(h, src, pal) ==
    LET r == NewResult(h, src)
    IN  [st |-> MatchVoxels([heap |-> r.heap, buffer |-> EmptyMap, log |-> EmptyMap],
                            src, r.addr, pal, DOMAIN h[src].Voxels),
         addr |-> r.addr]

\* buffer[pos], zero when absent.
BufferAt(buffer, p) == IF p \in DOMAIN buffer THEN buffer[p] ELSE <<0, 0, 0>>

\* addError storing the share in place of adding it.
addErrorOverwrite(buffer, x, y, z, error, weight) ==
    MapPut(buffer, <<x, y, z>>, <<error[1] * weight, error[2] * weight, error[3] * weight>>)

\* addError; weight is the numerator of weight/16.
addError(buffer, x, y, z, error, weight) ==
    LET current == BufferAt(buffer, <<x, y, z>>)
    IN  MapPut(buffer, <<x, y, z>>,
               <<current[1] + error[1] * weight,
                 current[2] + error[2] * weight,
                 current[3] + error[3] * weight>>)

\* distributeError with the 7/16 share going to the cell behind.
distributeErrorBackward(buffer, x, y, z, error, algorithm) ==
    IF algorithm = "floyd-steinberg" \/ algorithm = ""
    THEN addError(addError(addError(addError(buffer,
             x - 1, y, z, error, 7),
             x - 1, y + 1, z, error, 3),
             x, y + 1, z, error, 5),
             x + 1, y + 1, z, error, 1)
    ELSE buffer

\* distributeError with the 5/16 share going to the slice above.
distributeErrorAcrossZ(buffer, x, y, z, error, algorithm) ==
    IF algorithm = "floyd-steinberg" \/ algorithm = ""
    THEN addError(addError(addError(addError(buffer,
             x + 1, y, z, error, 7),
             x - 1, y + 1, z, error, 3),
             x, y, z + 1, error, 5),
             x + 1, y + 1, z, error, 1)
    ELSE buffer

distributeError(buffer, x, y, z, error, algorithm) ==
    IF algorithm = "floyd-steinberg" \/ algorithm = ""
    THEN addError(addError(addError(addError(buffer,
             x + 1, y, z, error, 7),
             x - 1, y + 1, z, error, 3),
             x, y + 1, z, error, 5),
             x + 1, y + 1, z, error, 1)
    ELSE buffer

Done == <<-1, -1, -1>>

RECURSIVE LoopPosYOuter(_, _, _, _)
\* The loops nested with Y outermost, then Z, then X.
LoopPosYOuter(vg, x, y, z) ==
    IF y >= vg.SizeY THEN Done
    ELSE IF z >= vg.SizeZ THEN LoopPosYOuter(vg, 0, y + 1, 0)
    ELSE IF x >= vg.SizeX THEN LoopPosYOuter(vg, 0, y, z + 1)
    ELSE <<x, y, z>>

RECURSIVE LoopPos(_, _, _, _)
\* The three nested for loops of applyDithering: the indices of the next
\* iteration of the innermost body when control reaches the x-loop's test
\* with indices x, y, z; Done when the outer loop exits.
LoopPos(vg, x, y, z) ==
    IF z >= vg.SizeZ THEN Done
    ELSE IF y >= vg.SizeY THEN LoopPos(vg, 0, 0, z + 1)
    ELSE IF x >= vg.SizeX THEN LoopPos(vg, 0, y + 1, z)
    ELSE <<x, y, z>>

\* One iteration of the innermost loop body of applyDithering at (x, y, z).
DitherBody(st, src, res, pal, algorithm, x, y, z) ==
    LET voxel == GetVoxel(st.heap[src], x, y, z)
    IN  IF voxel = NilVoxel THEN st
        ELSE LET m == MatchCall(pal, voxel.Color, BufferAt(st.buffer, <<x, y, z>>))
             IN  IF m.index = 0 THEN [st EXCEPT !.log = MapPut(@, <<x, y, z>>, m)]
                 ELSE [heap |-> [st.heap EXCEPT ![res] =
                                    SetVoxel(@, x, y, z, pal.Colors[m.index].RGB)],
                       buffer |-> distributeError(st.buffer, x, y, z, m.quantError, algorithm),
                       log |-> MapPut(st.log, <<x, y, z>>, m)]

RECURSIVE DitherFrom(_, _, _, _, _, _)
\* The rest of applyDithering's loop from position p on.
DitherFrom(st, src, res, pal, algorithm, p) ==
    IF p = Done THEN st
    ELSE DitherFrom(DitherBody(st, src, res, pal, algorithm, p[1], p[2], p[3]),
                    src, res, pal, algorithm,
                    LoopPos(st.heap[src], p[1] + 1, p[2], p[3]))

\* applyDithering(vg, config) run to its end: the grid it returns.
applyDithering(h, src, pal, algorithm) ==
    LET r == NewResult(h, src)
        st == DitherFrom([heap |-> r.heap, buffer |-> EmptyMap, log |-> EmptyMap],
                         src, r.addr, pal, algorithm, LoopPos(h[src], 0, 0, 0))
    IN  st.heap[r.addr]

Algorithms == {"floyd-steinberg", "", "jarvis"}

Configs == [Palette : Palettes, Enabled : BOOLEAN, Algorithm : Algorithms]

NoConfig == [Palette |-> NilPalette, Enabled |-> FALSE, Algorithm |-> ""]

\* Colours and accumulated errors (sixteenths) of a direct call to the matcher.
TargetColors == {Gray, White, Black, <<255, 0, 0>>, <<20, 21, 25>>}
TargetErrors == {<<0, 0, 0>>, <<-889, -889, -889>>, <<1016, 0, -24>>, <<5000, 7, -5000>>}

(***************************************************************************)
(* The state machine.  A caller either builds a grid by hand (NewGrid,     *)
(* SetVoxelCall), or loads a mesh and voxelizes it, or calls the matcher   *)
(* directly; a grid then goes through VoxelGridToSchematic, and the        *)
(* document written can be imported again.                                 *)
(***************************************************************************)
\* No TextureExtractor was built.
NoExtractor == [pc |-> "none"]

Init ==
    /\ pc = "start"
    /\ heap = <<>>
    /\ grid = 0
    /\ vgp = 0
    /\ resp = 0
    /\ palette = NilPalette
    /\ config = NoConfig
    /\ errorBuffer = EmptyMap
    /\ pos = Done
    /\ mesh = NoMesh
    /\ meshIn = NoMesh
    /\ thr = <<>>
    /\ processed = <<>>
    /\ vconfig = NoVoxelizationConfig
    /\ verr = ""
    /\ doc = NoDoc
    /\ nops = 0
    /\ written = EmptyMap
    /\ lastCall = "none"
    /\ matchLog = EmptyMap
    /\ voxPalette = EmptyMap
    /\ voxFile = <<>>
    /\ voxFile2 = <<>>
    /\ voxIn = <<>>
    /\ voxErr = ""
    /\ voxOut = 0
    /\ tex = NoExtractor

\* vg := NewVoxelGrid(sizeX, sizeY, sizeZ), by a caller building a grid.
NewGrid(sizeX, sizeY, sizeZ) ==
    /\ pc = "start"
    /\ LET r == Alloc(heap, NewVoxelGrid(sizeX, sizeY, sizeZ))
       IN  heap' = r.heap /\ grid' = r.addr
    /\ pc' = "build"
    /\ UNCHANGED <<vgp, resp, palette, config, errorBuffer, pos, mesh, vconfig, verr, doc,
                   nops, written, lastCall, matchLog>>
    /\ UNCHANGED voxvars
    /\ UNCHANGED <<meshIn, thr, processed, tex>>

\* vg.SetVoxel(x, y, z, color), by the caller.
SetVoxelCall(x, y, z, color) ==
    /\ pc = "build"
    /\ nops < MaxOps
    /\ heap' = [heap EXCEPT ![grid] = SetVoxel(@, x, y, z, color)]
    /\ nops' = nops + 1
    /\ IF /\ 0 <= x /\ x < heap[grid].SizeX
          /\ 0 <= y /\ y < heap[grid].SizeY
          /\ 0 <= z /\ z < heap[grid].SizeZ
       THEN /\ written' = MapPut(written, <<x, y, z>>,
                                 Append(IF <<x, y, z>> \in DOMAIN written
                                        THEN written[<<x, y, z>>] ELSE <<>>, color))
            /\ lastCall' = "in"
       ELSE /\ written' = written
            /\ lastCall' = "out"
    /\ UNCHANGED <<pc, grid, vgp, resp, palette, config, errorBuffer, pos, mesh, vconfig,
                   verr, doc, matchLog>>
    /\ UNCHANGED voxvars
    /\ UNCHANGED <<meshIn, thr, processed, tex>>

\* A mesh comes from a literal (Bounds zero) or from the glTF importer, which
\* ends with mesh.CalculateBounds().
LoadMesh(m, imported) ==
    /\ pc = "start"
    /\ mesh' = IF imported THEN CalculateBounds(m) ELSE m
    /\ pc' = "mesh"
    /\ UNCHANGED <<heap, grid, vgp, resp, palette, config, errorBuffer, pos, vconfig, verr,
                   doc, nops, written, lastCall, matchLog>>
    /\ UNCHANGED voxvars
    /\ UNCHANGED <<meshIn, thr, processed, tex>>

\* vg, err := NewSurfaceVoxelizer().Voxelize(mesh, cfg)
VoxelizeCall(cfg) ==
    /\ pc = "mesh"
    /\ vconfig' = cfg
    /\ meshIn' = mesh
    /\ LET r == Voxelize(mesh, cfg)
       IN  /\ mesh' = r.mesh
           /\ verr' = r.err
           /\ IF r.err = ""
              THEN /\ heap' = Alloc(heap, r.grid).heap
                   /\ grid' = Alloc(heap, r.grid).addr
                   /\ pc' = "voxelized"
              ELSE /\ UNCHANGED <<heap, grid>>
                   /\ pc' = "failed"
    /\ UNCHANGED <<vgp, resp, palette, config, errorBuffer, pos, doc, nops, written,
                   lastCall, matchLog>>
    /\ UNCHANGED voxvars
    /\ UNCHANGED <<thr, processed, tex>>

\* NewCIELABMatcher(pal).MatchWithDithering(color, error), called directly.
MatcherCall(pal, color, error) ==
    /\ pc = "start"
    /\ palette' = pal
    /\ matchLog' = MapPut(EmptyMap, <<0, 0, 0>>, MatchCall(pal, color, error))
    /\ pc' = "matched"
    /\ UNCHANGED <<heap, grid, vgp, resp, config, errorBuffer, pos, mesh, vconfig, verr,
                   doc, nops, written, lastCall>>
    /\ UNCHANGED voxvars
    /\ UNCHANGED <<meshIn, thr, processed, tex>>

\* p.VoxelGridToSchematic(vg, w, cfg): the whole call without dithering, the
\* call up to the set-up of applyDithering's loop with it.
VoxelGridToSchematic(cfg) ==
    /\ pc \in {"build", "voxelized"}
    /\ config' = cfg
    /\ lastCall' = "none"
    /\ IF cfg.Palette.IsNil
       THEN /\ vgp' = grid
            /\ doc' = Export(heap[grid], cfg.Palette)
            /\ pc' = "exported"
            /\ UNCHANGED <<heap, resp, palette, errorBuffer, pos, matchLog>>
       ELSE /\ palette' = cfg.Palette
            /\ IF cfg.Enabled
               THEN LET r == NewResult(heap, grid)
                    IN  /\ heap' = r.heap
                        /\ resp' = r.addr
                        /\ vgp' = grid
                        /\ errorBuffer' = EmptyMap
                        /\ pos' = LoopPos(heap[grid], 0, 0, 0)
                        /\ pc' = "dither"
                        /\ UNCHANGED <<doc, matchLog>>
               ELSE LET r == applyColorMatching(heap, grid, cfg.Palette)
                    IN  /\ heap' = r.st.heap
                        /\ matchLog' = r.st.log
                        /\ vgp' = r.addr
                        /\ doc' = Export(r.st.heap[r.addr], cfg.Palette)
                        /\ pc' = "exported"
                        /\ UNCHANGED <<resp, errorBuffer, pos>>
    /\ UNCHANGED <<grid, mesh, vconfig, verr, nops, written>>
    /\ UNCHANGED voxvars
    /\ UNCHANGED <<meshIn, thr, processed, tex>>

\* One iteration of applyDithering's innermost loop body.
DitherStep ==
    /\ pc = "dither"
    /\ pos # Done
    /\ LET st == DitherBody([heap |-> heap, buffer |-> errorBuffer, log |-> matchLog],
                            vgp, resp, palette, config.Algorithm, pos[1], pos[2], pos[3])
       IN  /\ heap' = st.heap
           /\ errorBuffer' = st.buffer
           /\ matchLog' = st.log
    /\ pos' = LoopPos(heap[vgp], pos[1] + 1, pos[2], pos[3])
    /\ UNCHANGED <<pc, grid, vgp, resp, palette, config, mesh, vconfig, verr, doc, nops,
                   written, lastCall>>
    /\ UNCHANGED voxvars
    /\ processed' = IF HasVoxel(heap[vgp], pos[1], pos[2], pos[3])
                    THEN Append(processed, pos) ELSE processed
    /\ UNCHANGED <<meshIn, thr, tex>>

\* return result; vg = p.applyDithering(vg, ...) and the export that ends
\* VoxelGridToSchematic.
DitherReturn ==
    /\ pc = "dither"
    /\ pos = Done
    /\ vgp' = resp
    /\ doc' = Export(heap[resp], config.Palette)
    /\ pc' = "exported"
    /\ UNCHANGED <<heap, grid, resp, palette, config, errorBuffer, pos, mesh, vconfig, verr,
                   nops, written, lastCall, matchLog>>
    /\ UNCHANGED voxvars
    /\ UNCHANGED <<meshIn, thr, processed, tex>>

\* vg, err := NewSchematicImporter().Import(r) on the document written.
ImportCall ==
    /\ pc = "exported"
    /\ LET r == Alloc(heap, Import(doc))
       IN  heap' = r.heap /\ grid' = r.addr
    /\ pc' = "imported"
    /\ UNCHANGED <<vgp, resp, palette, config, errorBuffer, pos, mesh, vconfig, verr, doc,
                   nops, written, lastCall, matchLog>>
    /\ UNCHANGED voxvars
    /\ UNCHANGED <<meshIn, thr, processed, tex>>

Next ==
    \/ \E sizeX, sizeY, sizeZ \in Sizes : NewGrid(sizeX, sizeY, sizeZ)
    \/ \E x, y, z \in Coords, color \in VoxelColors : SetVoxelCall(x, y, z, color)
    \/ \E m \in Meshes, imported \in BOOLEAN : LoadMesh(m, imported)
    \/ \E cfg \in VoxelizationConfigs : VoxelizeCall(cfg)
    \/ \E pal \in Palettes, color \in TargetColors, error \in TargetErrors :
          MatcherCall(pal, color, error)
    \/ \E cfg \in Configs : VoxelGridToSchematic(cfg)
    \/ DitherStep
    \/ DitherReturn
    \/ ImportCall

Spec == Init /\ [][Next]_vars

(***************************************************************************)
(* The VOX codec's state machine: a grid is exported to VOX bytes, and      *)
(* bytes (the file written, or a damaged copy of it) are handed to the     *)
(* importer, as mesh-to-vox and vox-to-schematic do.                       *)
(***************************************************************************)
\* Most voxels of a grid whose visiting orders are all tried.
MaxVoxVoxels == 3

\* The grids of 2 x 2 x 1 cells with at most MaxVoxVoxels voxels.
SmallVoxGrids ==
    {[NewVoxelGrid(2, 2, 1) EXCEPT !.Voxels =
          [k \in DOMAIN f |-> [X |-> k[1], Y |-> k[2], Z |-> k[3], Color |-> f[k]]]] :
       f \in UNION {[K -> VoxelColors] :
                       K \in {K \in SUBSET ((0..1) \X (0..1) \X {0}) :
                                 Cardinality(K) <= MaxVoxVoxels}}}

\* A row of n voxels of n different colours.
Gradient(n) ==
    [NewVoxelGrid(n, 1, 1) EXCEPT !.Voxels =
        [k \in (0..(n - 1)) \X {0} \X {0} |->
            [X |-> k[1], Y |-> 0, Z |-> 0, Color |-> <<k[1] % 256, k[1] \div 256, 7>>]]]

\* Rows as long as the palette (255 colours) and one longer.
GradientLengths == {255, 256}

\* A row of 257 cells with a voxel at each end.
WideGrid ==
    [NewVoxelGrid(257, 1, 1) EXCEPT !.Voxels =
        [k \in {<<0, 0, 0>>, <<256, 0, 0>>} |->
            [X |-> k[1], Y |-> 0, Z |-> 0, Color |-> Gray]]]

VoxGrids == SmallVoxGrids \cup {Gradient(n) : n \in GradientLengths} \cup {WideGrid}

\* The orders in which a loop over vg.Voxels may visit the voxels: every
\* order for a small grid; for a long row, left to right and right to left.
VisitOrders(vg) ==
    LET n == Count(vg)
    IN  IF n <= MaxVoxVoxels
        THEN {o \in [1..n -> DOMAIN vg.Voxels] : \A i, j \in 1..n : o[i] = o[j] => i = j}
        ELSE {[i \in 1..n |-> <<i - 1, 0, 0>>], [i \in 1..n |-> <<n - i, 0, 0>>]}

\* Files handed to the importer: the file written, cut short, with another
\* magic, and with another version.
VoxInputs(file) ==
    {file, <<>>, SubSeq(file, 1, 3), SubSeq(file, 1, 4), SubSeq(file, 1, 6),
     <<86, 79, 88, 50>> \o SubSeq(file, 5, Len(file)),
     MagicVOX \o LE32(200) \o SubSeq(file, 9, Len(file)),
     MagicVOX \o LE32(-1) \o SubSeq(file, 9, Len(file))}

VoxInit ==
    /\ pc = "vox"
    /\ heap \in {<<vg>> : vg \in VoxGrids}
    /\ grid = 1
    /\ vgp = 0
    /\ resp = 0
    /\ palette = NilPalette
    /\ config = NoConfig
    /\ errorBuffer = EmptyMap
    /\ pos = Done
    /\ mesh = NoMesh
    /\ meshIn = NoMesh
    /\ thr = <<>>
    /\ processed = <<>>
    /\ vconfig = NoVoxelizationConfig
    /\ verr = ""
    /\ doc = NoDoc
    /\ nops = 0
    /\ written = EmptyMap
    /\ lastCall = "none"
    /\ matchLog = EmptyMap
    /\ voxPalette = EmptyMap
    /\ voxFile = <<>>
    /\ voxFile2 = <<>>
    /\ voxIn = <<>>
    /\ voxErr = ""
    /\ voxOut = 0
    /\ tex = NoExtractor

\* NewVOXExporter().Export(vg, w); the two loops over vg.Voxels visit the
\* voxels in orders of their own.
VoxExportCall ==
    /\ pc = "vox"
    /\ \E paletteOrder, xyziOrder \in VisitOrders(heap[grid]) :
          LET pal == VoxPalette(heap[grid], paletteOrder)
          IN  /\ voxPalette' = pal
              /\ voxFile' = VoxExport(heap[grid], pal, xyziOrder)
    /\ pc' = "voxed"
    /\ UNCHANGED <<heap, grid, vgp, resp, palette, config, errorBuffer, pos, mesh, vconfig,
                   verr, doc, nops, written, lastCall, matchLog, voxFile2, voxIn, voxErr,
                   voxOut>>
    /\ UNCHANGED <<meshIn, thr, processed, tex>>

\* vg, err := NewVOXImporter().Import(r)
VoxImportCall ==
    /\ pc = "voxed"
    /\ \E r \in VoxInputs(voxFile) :
          /\ voxIn' = r
          /\ voxErr' = VoxImport(r).err
          /\ voxOut' = VoxImport(r).grid
    /\ pc' = "voximported"
    /\ UNCHANGED <<heap, grid, vgp, resp, palette, config, errorBuffer, pos, mesh, vconfig,
                   verr, doc, nops, written, lastCall, matchLog, voxPalette, voxFile,
                   voxFile2>>
    /\ UNCHANGED <<meshIn, thr, processed, tex>>

\* NewVOXExporter().Export(vg, w2): the same grid exported once more.
VoxExportAgain ==
    /\ pc = "voxed"
    /\ \E paletteOrder, xyziOrder \in VisitOrders(heap[grid]) :
          voxFile2' = VoxExport(heap[grid], VoxPalette(heap[grid], paletteOrder), xyziOrder)
    /\ pc' = "voxedtwice"
    /\ UNCHANGED <<heap, grid, vgp, resp, palette, config, errorBuffer, pos, mesh, vconfig,
                   verr, doc, nops, written, lastCall, matchLog, voxPalette, voxFile, voxIn,
                   voxErr, voxOut>>
    /\ UNCHANGED <<meshIn, thr, processed, tex>>

VoxNext ==
    \/ VoxExportCall
    \/ VoxExportAgain
    \/ VoxImportCall

VoxSpec == VoxInit /\ [][VoxNext]_vars

(***************************************************************************)
(* Two VoxelGridToSchematic invocations running concurrently on one        *)
(* Pipeline.  The Matcher, and with it the palette field that SetPalette   *)
(* writes and Match reads, is shared; everything else an invocation        *)
(* touches (its grid, its result, its error buffer, its writer) is its     *)
(* own.  A step is one access to the Matcher together with the local work  *)
(* that follows it.  thr[t].st.heap is <<vg, result>>.                     *)
(***************************************************************************)
Threads == 1..2

PaletteWool ==
    GenerateMinecraftPalette(<<MinecraftBlock("minecraft:light_gray_wool", <<142, 142, 134>>),
                               MinecraftBlock("minecraft:black_wool", <<20, 21, 25>>)>>)

ParPalettes == {NilPalette, EmptyPalette, PaletteBW, PaletteWool}

\* The grids of 2 x 1 x 1 cells.
ParGrids ==
    {[NewVoxelGrid(2, 1, 1) EXCEPT !.Voxels =
          [k \in DOMAIN f |-> [X |-> k[1], Y |-> k[2], Z |-> k[3], Color |-> f[k]]]] :
       f \in UNION {[K -> VoxelColors] : K \in SUBSET ((0..1) \X {0} \X {0})}}

ParConfigs == [Palette : ParPalettes, Enabled : BOOLEAN, Algorithm : {"floyd-steinberg"}]

\* An invocation about to be made with grid vg and configuration cfg.
Invocation(vg, cfg) ==
    [pc |-> "call", config |-> cfg,
     st |-> [heap |-> <<vg>>, buffer |-> EmptyMap, log |-> EmptyMap],
     todo |-> {}, pos |-> Done, doc |-> NoDoc]

\* VoxelGridToSchematic(vg, w, cfg) with no other invocation running: the
\* document written.
RunAlone(vg, cfg) ==
    IF cfg.Palette.IsNil THEN Export(vg, cfg.Palette)
    ELSE IF cfg.Enabled
         THEN Export(applyDithering(<<vg>>, 1, cfg.Palette, cfg.Algorithm), cfg.Palette)
         ELSE LET r == applyColorMatching(<<vg>>, 1, cfg.Palette)
              IN  Export(r.st.heap[r.addr], cfg.Palette)

ParInit ==
    /\ pc = "par"
    /\ heap = <<>>
    /\ grid = 0
    /\ vgp = 0
    /\ resp = 0
    /\ palette = NilPalette
    /\ config = NoConfig
    /\ errorBuffer = EmptyMap
    /\ pos = Done
    /\ mesh = NoMesh
    /\ meshIn = NoMesh
    /\ thr \in {<<Invocation(vg1, c[1]), Invocation(vg2, c[2])>> :
                   vg1 \in ParGrids, vg2 \in ParGrids,
                   c \in {c \in ParConfigs \X ParConfigs : c[1].Palette # c[2].Palette}}
    /\ processed = <<>>
    /\ vconfig = NoVoxelizationConfig
    /\ verr = ""
    /\ doc = NoDoc
    /\ nops = 0
    /\ written = EmptyMap
    /\ lastCall = "none"
    /\ matchLog = EmptyMap
    /\ voxPalette = EmptyMap
    /\ voxFile = <<>>
    /\ voxFile2 = <<>>
    /\ voxIn = <<>>
    /\ voxErr = ""
    /\ voxOut = 0
    /\ tex = NoExtractor

ParFrame ==
    UNCHANGED <<pc, heap, grid, vgp, resp, config, errorBuffer, pos, mesh, meshIn, vconfig,
                verr, doc, nops, written, lastCall, matchLog, voxPalette, voxFile, voxFile2,
                voxIn, voxErr, voxOut, processed, tex>>

\* The test on config.Palette, p.Matcher.SetPalette(config.Palette), and the
\* allocation of the result grid that opens applyDithering and
\* applyColorMatching.
ParSetPalette ==
    /\ pc = "par"
    /\ \E t \in Threads :
          /\ thr[t].pc = "call"
          /\ IF thr[t].config.Palette.IsNil
             THEN /\ thr' = [thr EXCEPT ![t].pc = "export"]
                  /\ UNCHANGED palette
             ELSE LET r == NewResult(thr[t].st.heap, 1)
                  IN  /\ palette' = thr[t].config.Palette
                      /\ thr' = [thr EXCEPT
                            ![t].st.heap = r.heap,
                            ![t].todo = DOMAIN thr[t].st.heap[1].Voxels,
                            ![t].pos = LoopPos(thr[t].st.heap[1], 0, 0, 0),
                            ![t].pc = IF thr[t].config.Enabled THEN "dither" ELSE "match"]
    /\ ParFrame

\* One iteration of applyColorMatching's loop: p.Matcher.Match on the
\* Matcher's palette of the moment, for a voxel not yet visited.
ParMatchStep ==
    /\ pc = "par"
    /\ \E t \in Threads :
          /\ thr[t].pc = "match"
          /\ \E p \in thr[t].todo :
                thr' = [thr EXCEPT ![t].st = MatchBody(@, 1, 2, palette, p),
                                   ![t].todo = @ \ {p}]
    /\ UNCHANGED palette
    /\ ParFrame

\* One iteration of applyDithering's innermost loop:
\* p.Matcher.MatchWithDithering on the Matcher's palette of the moment.
ParDitherStep ==
    /\ pc = "par"
    /\ \E t \in Threads :
          /\ thr[t].pc = "dither"
          /\ thr[t].pos # Done
          /\ thr' = [thr EXCEPT
                ![t].st = DitherBody(@, 1, 2, palette, thr[t].config.Algorithm,
                                     thr[t].pos[1], thr[t].pos[2], thr[t].pos[3]),
                ![t].pos = LoopPos(thr[t].st.heap[1], @[1] + 1, @[2], @[3])]
    /\ UNCHANGED palette
    /\ ParFrame

\* The end of the loop and exporter.Export(vg, config.Palette, ...).
ParExport ==
    /\ pc = "par"
    /\ \E t \in Threads :
          /\ \/ thr[t].pc = "export"
             \/ thr[t].pc = "match" /\ thr[t].todo = {}
             \/ thr[t].pc = "dither" /\ thr[t].pos = Done
          /\ thr' = [thr EXCEPT
                ![t].doc = Export(thr[t].st.heap[Len(thr[t].st.heap)], thr[t].config.Palette),
                ![t].pc = "done"]
    /\ UNCHANGED palette
    /\ ParFrame

ParNext ==
    \/ ParSetPalette
    \/ ParMatchStep
    \/ ParDitherStep
    \/ ParExport

ParSpec == ParInit /\ [][ParNext]_vars

(***************************************************************************)
(* The texture extractor: resolveTexture and resolveTextureReference.      *)
(*                                                                         *)
(* A texture string is kept as what the two prefix tests of the code see:  *)
(* whether it starts with "minecraft:", whether what follows starts with   *)
(* "#", and the rest.  A parent name is kept as whether it starts with     *)
(* "minecraft:block/", and the rest.  Both functions end in a call of      *)
(* themselves or of each other whose result they return unchanged, so a    *)
(* call in progress is the function entered, its arguments and the number  *)
(* of invocations on the goroutine's stack; one step of the model is one   *)
(* invocation.  The stack of a goroutine is limited: the invocation that   *)
(* does not fit ends the program with the runtime's fatal stack overflow.  *)
(***************************************************************************)
TextureString(minecraft, hash, rest) == [minecraft |-> minecraft, hash |-> hash, rest |-> rest]

\* strings.TrimPrefix(texture, "minecraft:")
TrimMinecraft(texture) == [texture EXCEPT !.minecraft = FALSE]

\* strings.HasPrefix(texture, "#"), on a string without "minecraft:" prefix
HasHashPrefix(texture) == ~texture.minecraft /\ texture.hash

\* strings.TrimPrefix(texture, "#"), on a string that starts with "#"
VarName(texture) == texture.rest

\* The string without characters.
EmptyString == TextureString(FALSE, FALSE, "")

ParentString(block, rest) == [block |-> block, rest |-> rest]

\* strings.TrimPrefix(model.Parent, "minecraft:block/")
TrimBlock(parent) == parent.rest

BlockModel(parent, textures) == [Parent |-> parent, Textures |-> textures]

\* The keys resolveTexture tries, in its order.
resolveKeys == <<"all", "texture", "particle", "side", "top", "front">>

\* The first of the keys from position i on that the model has a texture
\* for, 0 if there is none.
RECURSIVE FirstKey(_, _)
FirstKey(model, i) ==
    IF i > Len(resolveKeys) THEN 0
    ELSE IF resolveKeys[i] \in DOMAIN model.Textures THEN i
    ELSE FirstKey(model, i + 1)

Stone == TextureString(FALSE, FALSE, "block/stone")
Wood == TextureString(FALSE, FALSE, "block/wood")

\* Texture maps of block models: a direct path, a path with namespace, one
\* and two levels of "#" variables, a variable naming itself, two variables
\* naming each other, a variable that is not defined, and maps without any
\* of the keys.
TextureMaps ==
    { EmptyMap,
      ("all" :> Stone),
      ("all" :> TextureString(TRUE, FALSE, "block/stone")),
      ("all" :> TextureString(FALSE, TRUE, "base") @@ "base" :> Wood),
      ("top" :> TextureString(FALSE, TRUE, "base")
         @@ "base" :> TextureString(TRUE, TRUE, "inner") @@ "inner" :> Wood),
      ("all" :> TextureString(FALSE, TRUE, "all")),
      ("particle" :> TextureString(FALSE, TRUE, "a")
         @@ "a" :> TextureString(FALSE, TRUE, "b") @@ "b" :> TextureString(FALSE, TRUE, "a")),
      ("side" :> TextureString(FALSE, TRUE, "missing")),
      ("base" :> Wood) }

\* Names of the loaded models, and the parents a model can name: none, a
\* loaded model with or without the "minecraft:block/" prefix, and a model
\* that was not loaded.
ModelNames == {"cube", "slab"}
Parents ==
    { ParentString(FALSE, ""), ParentString(TRUE, "cube"), ParentString(FALSE, "slab"),
      ParentString(TRUE, "gone") }

BlockModels == {BlockModel(p, t) : p \in Parents, t \in TextureMaps}

\* The tables the extractor has loaded.
ModelTables == [ModelNames -> BlockModels]

\* The number of nested invocations the goroutine's stack has room for.
MaxStack == 8

\* The call t of resolveTexture or resolveTextureReference made from the
\* invocation in progress.
Call(t) ==
    IF tex.depth >= MaxStack THEN [tex EXCEPT !.pc = "fatal"]
    ELSE [t EXCEPT !.depth = tex.depth + 1]

\* te.resolveTexture(model) was just called, on any model and any table.
TexInit ==
    /\ pc = "tex"
    /\ heap = <<>>
    /\ grid = 0
    /\ vgp = 0
    /\ resp = 0
    /\ palette = NilPalette
    /\ config = NoConfig
    /\ errorBuffer = EmptyMap
    /\ pos = Done
    /\ mesh = NoMesh
    /\ meshIn = NoMesh
    /\ thr = <<>>
    /\ processed = <<>>
    /\ vconfig = NoVoxelizationConfig
    /\ verr = ""
    /\ doc = NoDoc
    /\ nops = 0
    /\ written = EmptyMap
    /\ lastCall = "none"
    /\ matchLog = EmptyMap
    /\ voxPalette = EmptyMap
    /\ voxFile = <<>>
    /\ voxFile2 = <<>>
    /\ voxIn = <<>>
    /\ voxErr = ""
    /\ voxOut = 0
    /\ \E blockModels \in ModelTables, model \in BlockModels :
          tex = [pc |-> "resolveTexture", blockModels |-> blockModels, model |-> model,
                 texture |-> EmptyString, result |-> EmptyString, depth |-> 1]

TexFrame == UNCHANGED <<corevars, voxvars, thr, processed>>

\* One invocation of resolveTexture: the first key found hands its value to
\* resolveTextureReference; without one, a parent that is loaded is
\* resolved in its place; otherwise "" is returned.
resolveTexture ==
    /\ pc = "tex"
    /\ tex.pc = "resolveTexture"
    /\ LET model == tex.model
           k == FirstKey(model, 1)
           parentName == TrimBlock(model.Parent)
       IN  IF k # 0
           THEN tex' = Call([tex EXCEPT !.pc = "resolveTextureReference",
                                        !.texture = model.Textures[resolveKeys[k]]])
           ELSE IF model.Parent # ParentString(FALSE, "")
                   /\ parentName \in DOMAIN tex.blockModels
           THEN tex' = Call([tex EXCEPT !.model = tex.blockModels[parentName]])
           ELSE tex' = [tex EXCEPT !.pc = "returned", !.result = EmptyString]
    /\ TexFrame

\* One invocation of resolveTextureReference: a "#" reference to a variable
\* the model defines is resolved in its place; anything else is returned
\* without its "minecraft:" prefix.
resolveTextureReference ==
    /\ pc = "tex"
    /\ tex.pc = "resolveTextureReference"
    /\ LET texture == TrimMinecraft(tex.texture)
       IN  IF HasHashPrefix(texture) /\ VarName(texture) \in DOMAIN tex.model.Textures
           THEN tex' = Call([tex EXCEPT !.texture = tex.model.Textures[VarName(texture)]])
           ELSE tex' = [tex EXCEPT !.pc = "returned", !.result = texture]
    /\ TexFrame

TexNext ==
    \/ resolveTexture
    \/ resolveTextureReference

\* A call in progress goes on: nothing stops the goroutine from outside.
TexSpec == TexInit /\ [][TexNext]_vars /\ WF_vars(TexNext)

(***************************************************************************)
(* Properties of the voxel grid.                                           *)
(***************************************************************************)
\* C1: in every grid built or transformed so far (by NewVoxelGrid, SetVoxel
\* with any arguments, Voxelize, plain or dithered colour matching, schematic
\* Import) every key (x, y, z) of the sparse map has 0 <= x < SizeX,
\* 0 <= y < SizeY, 0 <= z < SizeZ, and the voxel stored under it carries the
\* key in its X, Y, Z fields.
C1_KeysInBounds ==
    \A a \in 1..Len(heap) :
        \A k \in DOMAIN heap[a].Voxels :
            /\ 0 <= k[1] /\ k[1] < heap[a].SizeX
            /\ 0 <= k[2] /\ k[2] < heap[a].SizeY
            /\ 0 <= k[3] /\ k[3] < heap[a].SizeZ
            /\ heap[a].Voxels[k].X = k[1]
            /\ heap[a].Voxels[k].Y = k[2]
            /\ heap[a].Voxels[k].Z = k[3]

\* A voxelized mesh went through dithered matching, export and import, and
\* each of the three grids holds more than one voxel.
C1_Witness ==
    /\ pc = "imported"
    /\ verr = "" /\ Len(mesh.Vertices) > 0
    /\ config.Enabled /\ ~config.Palette.IsNil
    /\ Len(heap) = 3
    /\ \A a \in 1..3 : Count(heap[a]) > 1

\* C9: while the caller builds a grid, every cell it has set inside the
\* bounds is present (HasVoxel), GetVoxel gives the colour of the latest such
\* SetVoxel there, and Count is the number of distinct cells so set.
C9_SetThenGet ==
    pc = "build" =>
        /\ \A p \in DOMAIN written :
              /\ HasVoxel(heap[grid], p[1], p[2], p[3])
              /\ GetVoxel(heap[grid], p[1], p[2], p[3]).Color
                     = written[p][Len(written[p])]
        /\ Count(heap[grid]) = Cardinality(DOMAIN written)

\* A cell was set twice inside the bounds, with two different colours.
C9_Witness ==
    /\ pc = "build"
    /\ \E p \in DOMAIN written :
          Len(written[p]) = 2 /\ written[p][1] # written[p][2]

\* C10: a SetVoxel call with a coordinate outside the bounds leaves the grid
\* as it was (the occupied set, every colour, hence Count), and so every
\* other grid.
C10_OutOfBoundsNoChange ==
    [][(pc = "build" /\ nops' = nops + 1 /\ lastCall' = "out") => heap' = heap]_vars

\* The last call was outside the bounds of a grid that holds a voxel.
C10_Witness ==
    pc = "build" /\ lastCall = "out" /\ Count(heap[grid]) > 0

(***************************************************************************)
(* Properties of the matcher.  matchLog holds the calls made on the        *)
(* matcher's current palette: the direct call, or one call per voxel of    *)
(* the grid being colour-matched.                                          *)
(***************************************************************************)
\* The distance Match computes between the colour handed to it and entry j.
EntryDistance(call, j) == DeltaE(RGBToLAB(call.adjusted), palette.Colors[j].LAB)

\* C2: on a non-empty palette Match returns an entry at minimal distance from
\* the colour it is given, and the entry of smallest index among those at
\* that distance.
C2_NearestFirst ==
    (~palette.IsNil /\ Len(palette.Colors) > 0) =>
        \A p \in DOMAIN matchLog :
            LET call == matchLog[p]
            IN  /\ call.index \in 1..Len(palette.Colors)
                /\ \A j \in 1..Len(palette.Colors) :
                      /\ EntryDistance(call, j) >= EntryDistance(call, call.index)
                      /\ j < call.index =>
                            EntryDistance(call, j) > EntryDistance(call, call.index)

\* A direct call whose answer is the first of two entries at the same
\* distance from the target.
C2_Witness ==
    /\ pc = "matched"
    /\ ~palette.IsNil
    /\ \E j \in 1..Len(palette.Colors) :
          /\ j > matchLog[<<0, 0, 0>>].index
          /\ matchLog[<<0, 0, 0>>].index > 0
          /\ EntryDistance(matchLog[<<0, 0, 0>>], j)
                 = EntryDistance(matchLog[<<0, 0, 0>>], matchLog[<<0, 0, 0>>].index)

\* C8: a call to Match or MatchWithDithering returns nil exactly when the
\* matcher's palette is nil or has no entries, and MatchWithDithering then
\* returns the zero quantization error.
C8_NilIffNoPalette ==
    \A p \in DOMAIN matchLog :
        /\ matchLog[p].index = 0 <=> (palette.IsNil \/ Len(palette.Colors) = 0)
        /\ matchLog[p].index = 0 => matchLog[p].quantError = <<0, 0, 0>>

\* A direct call with a non-zero accumulated error on an empty palette.
C8_Witness ==
    /\ pc = "matched"
    /\ ~palette.IsNil /\ Len(palette.Colors) = 0
    /\ matchLog[<<0, 0, 0>>].error # <<0, 0, 0>>
    /\ matchLog[<<0, 0, 0>>].index = 0

(***************************************************************************)
(* Properties of the voxelizer.                                            *)
(***************************************************************************)
\* All vertices of the mesh are at one position.
AllVerticesIdentical ==
    \A i \in 1..Len(mesh.Vertices) : mesh.Vertices[i] = mesh.Vertices[1]

\* The bounding box of the vertices has no extent along axis k.
FlatAlong(k) ==
    \A i \in 1..Len(mesh.Vertices) : mesh.Vertices[i][k] = mesh.Vertices[1][k]

\* C4 as stated: Voxelize returns the degenerate-mesh error and no grid
\* whenever the bounding box of a mesh with vertices has zero extent along at
\* least one axis.
C4_ZeroVolumeRejected ==
    (/\ pc \in {"voxelized", "failed"}
     /\ Len(mesh.Vertices) > 0
     /\ \E k \in 1..3 : FlatAlong(k))
        => (pc = "failed" /\ verr = "mesh has zero size" /\ grid = 0)

\* C5: Voxelize of a mesh without vertices returns the empty-mesh error and
\* no grid, and of a mesh whose vertices are all at one position the
\* degenerate-mesh error and no grid, whatever the resolution, the scale
\* override and the conservative flag.
C5_EmptyAndPointRejected ==
    pc \in {"voxelized", "failed"} =>
        /\ Len(mesh.Vertices) = 0
              => (pc = "failed" /\ verr = "mesh has no vertices" /\ grid = 0)
        /\ (Len(mesh.Vertices) > 0 /\ AllVerticesIdentical)
              => (pc = "failed" /\ verr = "mesh has zero size" /\ grid = 0)

\* A mesh of three identical vertices was refused under a scale override with
\* conservative rasterization.
C5_Witness ==
    /\ pc = "failed"
    /\ Len(mesh.Vertices) = 3 /\ AllVerticesIdentical
    /\ vconfig.Scale[1] > 0 /\ vconfig.Conservative
    /\ verr = "mesh has zero size"

(***************************************************************************)
(* Properties of colour application in VoxelGridToSchematic.               *)
(***************************************************************************)
\* C6: no step of VoxelGridToSchematic changes the input grid (sizes, scale,
\* origin, occupied set, colours), and where colours are applied the grid
\* being filled and the grid exported are not the input grid.
C6_InputUntouched ==
    [][(pc \in {"build", "voxelized", "dither"} /\ pc' \in {"dither", "exported"}) =>
          /\ grid' = grid
          /\ heap'[grid] = heap[grid]
          /\ pc' = "dither" => resp' # grid
          /\ (pc' = "exported" /\ ~config'.Palette.IsNil) => vgp' # grid]_vars

\* Dithered matching has run to its end on a grid with voxels and exported a
\* grid whose colours differ from the input's.
C6_Witness ==
    /\ pc = "exported"
    /\ config.Enabled /\ ~config.Palette.IsNil
    /\ Count(heap[grid]) > 0
    /\ vgp # grid
    /\ heap[vgp].Voxels # heap[grid].Voxels

\* C7: without dithering, on a non-empty palette the grid exported has the
\* input's sizes, scale, origin and occupied cells, each cell coloured with
\* the RGB of the entry Match returns for the input colour; on an empty
\* palette it has no voxels.
C7_PlainMatch ==
    (pc = "exported" /\ ~config.Enabled /\ ~config.Palette.IsNil) =>
        LET in == heap[grid]
            out == heap[vgp]
            pal == config.Palette
        IN  IF Len(pal.Colors) = 0 THEN DOMAIN out.Voxels = {}
            ELSE /\ out.SizeX = in.SizeX /\ out.SizeY = in.SizeY /\ out.SizeZ = in.SizeZ
                 /\ out.Scale = in.Scale /\ out.Origin = in.Origin
                 /\ DOMAIN out.Voxels = DOMAIN in.Voxels
                 /\ \A p \in DOMAIN in.Voxels :
                       out.Voxels[p].Color = pal.Colors[Match(pal, in.Voxels[p].Color)].RGB

\* Plain matching on a two-entry palette of a grid with two voxels, at least
\* one of which changed colour.
C7_Witness ==
    /\ pc = "exported"
    /\ ~config.Enabled /\ ~config.Palette.IsNil /\ Len(config.Palette.Colors) = 2
    /\ Count(heap[grid]) = 2
    /\ Count(heap[vgp]) = 2
    /\ \E p \in DOMAIN heap[grid].Voxels :
          heap[vgp].Voxels[p].Color # heap[grid].Voxels[p].Color

\* C3 as stated: dithered matching under an algorithm name other than
\* "floyd-steinberg" exports the grid a run under "floyd-steinberg" gives.
C3_UnknownNameIsFloydSteinberg ==
    (/\ pc = "exported"
     /\ config.Enabled /\ ~config.Palette.IsNil
     /\ config.Algorithm # "floyd-steinberg")
        => heap[vgp] = applyDithering(heap, grid, config.Palette, "floyd-steinberg")

(***************************************************************************)
(* Properties of the VOX codec, read off the bytes written.  In a file of  *)
(* n voxels the XYZI entries start after 60 bytes and the RGBA table after *)
(* 72 + 4n bytes.                                                          *)
(***************************************************************************)
\* The j-th entry <<x, y, z, index>> of the XYZI chunk of the file written.
XyziEntry(j) == SubSeq(voxFile, 57 + 4 * j, 60 + 4 * j)

\* The entry <<r, g, b, a>> at position index of the RGBA table of the file.
RgbaEntry(index) ==
    SubSeq(voxFile, 73 + 4 * Count(heap[grid]) + 4 * index,
                    76 + 4 * Count(heap[grid]) + 4 * index)

\* The colours of the grid exported.
GridColors == {heap[grid].Voxels[k].Color : k \in DOMAIN heap[grid].Voxels}

\* C11 as stated: in the file written no XYZI entry has palette index 0,
\* however many colours the grid has; and with at most 255 colours the
\* entries of voxels of different colours have different indices in 1..255
\* and the RGBA entry at a voxel's index is the voxel's RGB with alpha 255.
C11_IndexZeroReserved ==
    pc = "voxed" =>
        /\ \A j \in 1..Count(heap[grid]) : XyziEntry(j)[4] # 0
        /\ Cardinality(GridColors) <= 255 =>
              \A j \in 1..Count(heap[grid]) :
                  LET e == XyziEntry(j)
                      color == heap[grid].Voxels[<<e[1], e[2], e[3]>>].Color
                  IN  /\ e[4] \in 1..255
                      /\ RgbaEntry(e[4]) = color \o <<255>>

\* C12 as stated: importing the bytes the exporter wrote succeeds and gives
\* a grid of the exported grid's sizes and occupied cells.
C12_VoxRoundTrip ==
    (pc = "voximported" /\ voxIn = voxFile) =>
        /\ voxErr = ""
        /\ voxOut # 0
        /\ heap[voxOut].SizeX = heap[grid].SizeX
        /\ heap[voxOut].SizeY = heap[grid].SizeY
        /\ heap[voxOut].SizeZ = heap[grid].SizeZ
        /\ DOMAIN heap[voxOut].Voxels = DOMAIN heap[grid].Voxels

\* The version recorded in bytes 5..8 of the importer's input is 150.
VersionIs150 == SubSeq(voxIn, 5, 8) = LE32(150)

\* C13 as stated: the importer returns no grid for a damaged file: an error
\* for a file that ends within the header, the invalid-format error for a
\* wrong magic, and for a version other than the supported one an error that
\* differs from the outcome of importing the file of the supported version.
C13_VoxMalformed ==
    (pc = "voximported" /\ voxIn # voxFile) =>
        /\ voxOut = 0
        /\ voxErr # ""
        /\ (Len(voxIn) >= 4 /\ SubSeq(voxIn, 1, 4) # MagicVOX)
              => voxErr = "invalid VOX file: wrong magic number"
        /\ (Len(voxIn) >= 8 /\ SubSeq(voxIn, 1, 4) = MagicVOX /\ ~VersionIs150)
              => voxErr # VoxImport(voxFile).err

(***************************************************************************)
(* Properties of the schematic codec.  heap[vgp] is the grid handed to     *)
(* Export, doc the document written, and after ImportCall heap[grid] the   *)
(* grid read back.                                                         *)
(***************************************************************************)
\* C14 as stated: the grid imported from an exported document has the
\* exported grid's Width, Height and Length and exactly its occupied cells,
\* whatever the palette (nil, empty, entries with or without a block ID).
C14_SchematicRoundTrip ==
    pc = "imported" =>
        /\ heap[grid].SizeX = heap[vgp].SizeX
        /\ heap[grid].SizeY = heap[vgp].SizeY
        /\ heap[grid].SizeZ = heap[vgp].SizeZ
        /\ DOMAIN heap[grid].Voxels = DOMAIN heap[vgp].Voxels

\* The position of cell p in the BlockData of a grid, counted from 0.
BlockDataIndex(vg, p) == p[2] + p[3] * vg.SizeY + p[1] * vg.SizeY * vg.SizeZ

\* C15 as stated: BlockData has SizeX*SizeY*SizeZ bytes; the byte at the
\* position of an occupied voxel is not 0 and is the palette index of the
\* block matched to the voxel (1 without a palette); every other byte is 0.
C15_BlockDataLayout ==
    pc = "exported" =>
        LET vg == heap[vgp]
            pal == config.Palette
        IN  /\ Len(doc.BlockData) = vg.SizeX * vg.SizeY * vg.SizeZ
            /\ \A p \in DOMAIN vg.Voxels :
                  LET b == doc.BlockData[BlockDataIndex(vg, p) + 1]
                      matched == Match(pal, vg.Voxels[p].Color)
                  IN  /\ b # 0
                      /\ pal.IsNil => b = 1
                      /\ (~pal.IsNil /\ matched # 0)
                            => b = doc.Palette[EntryBlockID(pal.Colors[matched])]
            /\ \A i \in 1..Len(doc.BlockData) :
                  (\A p \in DOMAIN vg.Voxels : BlockDataIndex(vg, p) + 1 # i)
                      => doc.BlockData[i] = 0

(***************************************************************************)
(* Frame of the voxelizer.                                                 *)
(***************************************************************************)
\* C16 as stated: a Voxelize call leaves the mesh it is given as it was
\* (vertices, faces, materials and Bounds), whether it returns a grid or an
\* error.
C16_MeshUntouched ==
    pc \in {"voxelized", "failed"} => mesh = meshIn

\* Bounds b is the bounding box of the vertices of mesh m.
IsBoundingBox(b, m) ==
    \A k \in 1..3 :
        /\ \A i \in 1..Len(m.Vertices) :
              b.Min[k] <= m.Vertices[i][k] /\ m.Vertices[i][k] <= b.Max[k]
        /\ \E i \in 1..Len(m.Vertices) : b.Min[k] = m.Vertices[i][k]
        /\ \E i \in 1..Len(m.Vertices) : b.Max[k] = m.Vertices[i][k]

\* C16, amended: a Voxelize call leaves the vertices, faces and materials as
\* they were; it leaves Bounds as it was when the mesh has no vertices or
\* Bounds is not all zero, and otherwise sets Bounds to the bounding box of
\* the vertices.
C16_OnlyZeroBoundsRecomputed ==
    pc \in {"voxelized", "failed"} =>
        /\ mesh.Vertices = meshIn.Vertices
        /\ mesh.Faces = meshIn.Faces
        /\ mesh.Materials = meshIn.Materials
        /\ IF /\ Len(meshIn.Vertices) > 0
              /\ meshIn.Bounds.Min = Zero3 /\ meshIn.Bounds.Max = Zero3
           THEN IsBoundingBox(mesh.Bounds, meshIn)
           ELSE mesh.Bounds = meshIn.Bounds

\* Voxelize was given a mesh with volume and zero Bounds, returned a grid
\* with voxels, and left other Bounds in the mesh.
C16_Witness ==
    /\ pc = "voxelized"
    /\ meshIn.Bounds.Min = Zero3 /\ meshIn.Bounds.Max = Zero3
    /\ mesh.Bounds # meshIn.Bounds
    /\ Count(heap[grid]) > 0

(***************************************************************************)
(* Concurrent invocations on one Pipeline.                                 *)
(***************************************************************************)
\* C17 as stated: when two VoxelGridToSchematic invocations with different
\* palettes run concurrently on one Pipeline, each document written is the
\* one its invocation writes when run alone, under every interleaving.
C17_ConcurrentRunsIndependent ==
    pc = "par" =>
        \A t \in Threads :
            thr[t].pc = "done" => thr[t].doc = RunAlone(thr[t].st.heap[1], thr[t].config)

(***************************************************************************)
(* Dithering: order of processing and error diffusion.                     *)
(***************************************************************************)
\* Cell p comes before cell q in raster order: (z, y, x) compared
\* lexicographically.
RasterLess(p, q) ==
    \/ p[3] < q[3]
    \/ p[3] = q[3] /\ p[2] < q[2]
    \/ p[3] = q[3] /\ p[2] = q[2] /\ p[1] < q[1]

\* C19: applyDithering calls the matcher for each occupied voxel exactly
\* once and in ascending raster order, Z outermost, then Y, then X: when a
\* voxel is processed, the voxels processed before it are exactly the
\* occupied ones that precede it in (z, y, x) order; an iteration at an
\* unoccupied cell changes nothing; when the loop ends every occupied voxel
\* has been processed.
C19_RasterOrder ==
    [][/\ pc = "dither" /\ pos # Done =>
            IF HasVoxel(heap[vgp], pos[1], pos[2], pos[3])
            THEN /\ processed' = Append(processed, pos)
                 /\ pos \notin DOMAIN matchLog /\ pos \in DOMAIN matchLog'
                 /\ {processed[i] : i \in 1..Len(processed)}
                       = {q \in DOMAIN heap[vgp].Voxels : RasterLess(q, pos)}
                 /\ \A i, j \in 1..Len(processed) :
                       i < j => RasterLess(processed[i], processed[j])
            ELSE /\ processed' = processed
                 /\ heap' = heap /\ errorBuffer' = errorBuffer /\ matchLog' = matchLog
       /\ pc = "dither" /\ pc' = "exported" =>
            /\ {processed[i] : i \in 1..Len(processed)} = DOMAIN heap[vgp].Voxels
            /\ Len(processed) = Count(heap[vgp])]_vars

\* A dithered run has ended on a grid with unoccupied cells in which the
\* voxel processed first has the larger y and the smaller z.
C19_Witness ==
    /\ pc = "exported"
    /\ config.Enabled /\ ~config.Palette.IsNil
    /\ Len(processed) = 2
    /\ processed[1][2] > processed[2][2]
    /\ processed[1][3] < processed[2][3]

\* The sixteenths of the quantization error that the cell (x, y, z) hands
\* to cell k under the Floyd-Steinberg pattern.
Share(k, x, y, z) ==
    IF k = <<x + 1, y, z>> THEN 7
    ELSE IF k = <<x - 1, y + 1, z>> THEN 3
    ELSE IF k = <<x, y + 1, z>> THEN 5
    ELSE IF k = <<x + 1, y + 1, z>> THEN 1
    ELSE 0

\* C20: when a voxel at (x, y, z) is matched under floyd-steinberg with
\* quantization error e, the accumulator grows per channel by e*7/16 at
\* (x+1,y,z), e*3/16 at (x-1,y+1,z), e*5/16 at (x,y+1,z) and e*1/16 at
\* (x+1,y+1,z); no other entry changes, and every entry written has the
\* voxel's z.  (The accumulator is kept in sixteenths.)
C20_FloydSteinbergShares ==
    [][(/\ pc = "dither" /\ pos # Done
        /\ config.Algorithm = "floyd-steinberg"
        /\ pos \in DOMAIN matchLog'
        /\ pos \notin DOMAIN matchLog
        /\ matchLog'[pos].index # 0) =>
           LET e == matchLog'[pos].quantError
               four == {<<pos[1] + 1, pos[2], pos[3]>>, <<pos[1] - 1, pos[2] + 1, pos[3]>>,
                        <<pos[1], pos[2] + 1, pos[3]>>, <<pos[1] + 1, pos[2] + 1, pos[3]>>}
           IN  /\ DOMAIN errorBuffer' = DOMAIN errorBuffer \cup four
               /\ \A k \in DOMAIN errorBuffer' :
                     /\ \A c \in 1..3 :
                           errorBuffer'[k][c] = BufferAt(errorBuffer, k)[c]
                                                 + e[c] * Share(k, pos[1], pos[2], pos[3])
                     /\ errorBuffer'[k] # BufferAt(errorBuffer, k) => k[3] = pos[3]
               /\ \A k \in DOMAIN errorBuffer' \ DOMAIN errorBuffer : k[3] = pos[3]]_vars

\* Under floyd-steinberg a second voxel is being matched with an accumulated
\* error that the first one left for it.
C20_Witness ==
    /\ pc = "dither"
    /\ config.Algorithm = "floyd-steinberg"
    /\ Len(processed) = 2
    /\ matchLog[processed[1]].quantError # <<0, 0, 0>>
    /\ matchLog[processed[2]].error # <<0, 0, 0>>

(***************************************************************************)
(* MatchWithDithering.                                                     *)
(***************************************************************************)
\* rgb + err clamped to [0, 255], in sixteenths, for channel k of a call.
ClampedSum(call, k) ==
    LET v == 16 * call.color[k] + call.error[k]
    IN  IF v < 0 THEN 0 ELSE IF v > 255 * 16 THEN 255 * 16 ELSE v

\* The calls in matchLog are calls to MatchWithDithering (made directly or by
\* applyDithering), not the Match calls of plain colour matching.
LogIsOfDithering == pc = "matched" \/ config.Enabled

\* C21 as stated: the quantization error returned with a match is, per
\* channel, rgb + err clamped to [0, 255] minus the matched entry's RGB.
C21_QuantErrorOfClampedSum ==
    LogIsOfDithering => \A p \in DOMAIN matchLog :
        LET call == matchLog[p]
        IN  call.index # 0 =>
                \A k \in 1..3 :
                    16 * call.quantError[k]
                        = ClampedSum(call, k) - 16 * palette.Colors[call.index].RGB[k]

\* C21, amended: the colour matched is rgb + err clamped to [0, 255] and
\* then cut down to a whole number; the entry returned is the one Match gives
\* for that colour; the quantization error is that whole-number colour minus
\* the entry's RGB, and zero when there is no entry.
C21_QuantErrorOfTruncatedSum ==
    LogIsOfDithering => \A p \in DOMAIN matchLog :
        LET call == matchLog[p]
        IN  /\ \A k \in 1..3 :
                  /\ call.adjusted[k] \in 0..255
                  /\ 16 * call.adjusted[k] <= ClampedSum(call, k)
                  /\ ClampedSum(call, k) < 16 * (call.adjusted[k] + 1)
            /\ call.index = Match(palette, call.adjusted)
            /\ \A k \in 1..3 :
                  call.quantError[k] =
                      IF call.index = 0 THEN 0
                      ELSE call.adjusted[k] - palette.Colors[call.index].RGB[k]

\* A call whose sum rgb + err is in range and not whole in some channel, and
\* which returned an entry.
C21_Witness ==
    LogIsOfDithering /\ \E p \in DOMAIN matchLog :
        /\ matchLog[p].index # 0
        /\ \E k \in 1..3 :
              /\ ClampedSum(matchLog[p], k) = 16 * matchLog[p].color[k] + matchLog[p].error[k]
              /\ ClampedSum(matchLog[p], k) % 16 # 0

(***************************************************************************)
(* Dithering: what the error accumulator holds.                            *)
(***************************************************************************)
\* C22: a step of applyDithering creates or changes accumulator entries only
\* at cells strictly later in (z, y, x) raster order than the cell being
\* processed, and after every step the entry of each voxel processed so far
\* is still the accumulated error that voxel was matched with.
C22_ErrorOnlyForward ==
    [][(pc = "dither" /\ pos # Done) =>
          /\ \A k \in DOMAIN errorBuffer' :
                (k \notin DOMAIN errorBuffer \/ errorBuffer'[k] # errorBuffer[k])
                    => RasterLess(pos, k)
          /\ \A i \in 1..Len(processed') :
                BufferAt(errorBuffer', processed'[i]) = matchLog'[processed'[i]].error]_vars

\* A dithered run has ended in which the second voxel was matched with an
\* error left by the first, and the accumulator still holds that error.
C22_Witness ==
    /\ pc = "exported"
    /\ config.Enabled
    /\ Len(processed) = 2
    /\ processed[2] \in DOMAIN errorBuffer
    /\ errorBuffer[processed[2]] # <<0, 0, 0>>
    /\ errorBuffer[processed[2]] = matchLog[processed[2]].error

RECURSIVE SumOver(_, _, _)
\* The sum of f[k][c] over the keys k in keys.
SumOver(f, keys, c) ==
    IF keys = {} THEN 0
    ELSE LET k == CHOOSE k \in keys : TRUE
         IN  f[k][c] + SumOver(f, keys \ {k}, c)

\* C23: under floyd-steinberg, after any number of iterations the sum of all
\* accumulator entries equals, per channel, the sum of the quantization
\* errors of the voxels matched so far (the four shares of a voxel sum to its
\* error, and entries are only added to).  The accumulator is in sixteenths.
C23_ErrorConserved ==
    (config.Enabled /\ config.Algorithm = "floyd-steinberg"
        /\ pc \in {"dither", "exported"}) =>
        \A c \in 1..3 :
            SumOver(errorBuffer, DOMAIN errorBuffer, c)
                = 16 * SumOver([p \in DOMAIN matchLog |-> matchLog[p].quantError],
                               DOMAIN matchLog, c)

\* Under floyd-steinberg two voxels have been matched, both with a non-zero
\* quantization error, and one accumulator entry holds shares of both.
C23_Witness ==
    /\ pc = "dither" /\ pos = Done
    /\ config.Algorithm = "floyd-steinberg"
    /\ Len(processed) = 2
    /\ matchLog[processed[1]].quantError # <<0, 0, 0>>
    /\ matchLog[processed[2]].quantError # <<0, 0, 0>>
    /\ \E k \in DOMAIN errorBuffer :
          /\ Share(k, processed[1][1], processed[1][2], processed[1][3]) > 0
          /\ Share(k, processed[2][1], processed[2][2], processed[2][3]) > 0

(***************************************************************************)
(* Voxelizer: faces and grid size.                                         *)
(***************************************************************************)
\* The cells that the rasterization of face i of the mesh marks in the grid
\* returned; none for a face with fewer than three vertices.
Marked(i) ==
    LET face == mesh.Faces[i]
    IN  IF Len(face.VertexIndices) < 3 THEN {}
        ELSE TriangleCells(heap[grid],
                 mesh.Vertices[face.VertexIndices[1] + 1],
                 mesh.Vertices[face.VertexIndices[2] + 1],
                 mesh.Vertices[face.VertexIndices[3] + 1], vconfig.Conservative)

\* C24: after Voxelize a cell is occupied exactly when some face marked it,
\* and an occupied voxel has the colour of the last face, in mesh face
\* order, that marked its cell.
C24_LastFaceWins ==
    pc = "voxelized" =>
        /\ DOMAIN heap[grid].Voxels = UNION {Marked(i) : i \in 1..Len(mesh.Faces)}
        /\ \A p \in DOMAIN heap[grid].Voxels :
              \E i \in 1..Len(mesh.Faces) :
                  /\ p \in Marked(i)
                  /\ \A j \in (i + 1)..Len(mesh.Faces) : p \notin Marked(j)
                  /\ heap[grid].Voxels[p].Color = FaceColor(mesh, mesh.Faces[i])

\* Voxelize returned a grid with a cell that two faces of different colours
\* marked, and a cell that no face marked.
C24_Witness ==
    /\ pc = "voxelized"
    /\ \E p \in DOMAIN heap[grid].Voxels :
          \E i, j \in 1..Len(mesh.Faces) :
              /\ i < j
              /\ p \in Marked(i) /\ p \in Marked(j)
              /\ FaceColor(mesh, mesh.Faces[i]) # FaceColor(mesh, mesh.Faces[j])
    /\ Count(heap[grid]) < heap[grid].SizeX * heap[grid].SizeY * heap[grid].SizeZ

\* The extent of the mesh along axis k, and the longest.
Extent(k) == mesh.Bounds.Max[k] - mesh.Bounds.Min[k]
LongestExtent == Max2(Extent(1), Max2(Extent(2), Extent(3)))

\* The size of the grid returned along axis k.
SizeAlong(k) ==
    IF k = 1 THEN heap[grid].SizeX ELSE IF k = 2 THEN heap[grid].SizeY ELSE heap[grid].SizeZ

\* C25 as stated: with no scale override the grid size along axis k is
\* ceil(extent * R / longest extent), which is R along the longest axis and
\* at most R along the others; with an override the size is
\* ceil(extent * override), whatever R is.
C25_GridSize ==
    pc = "voxelized" =>
        IF vconfig.Scale[1] > 0
        THEN \A k \in 1..3 : SizeAlong(k) = CeilDiv(Extent(k) * vconfig.Scale[1],
                                                   vconfig.Scale[2])
        ELSE \A k \in 1..3 :
                /\ SizeAlong(k) = CeilDiv(Extent(k) * vconfig.Resolution, LongestExtent)
                /\ SizeAlong(k) <= vconfig.Resolution
                /\ Extent(k) = LongestExtent => SizeAlong(k) = vconfig.Resolution

(***************************************************************************)
(* Schematic export: the block palette.                                    *)
(***************************************************************************)
\* The block names Export meets while scanning the palette, in order: the
\* name each entry is filed under, or the default block for a nil palette.
ScannedNames ==
    IF config.Palette.IsNil THEN <<"minecraft:white_concrete">>
    ELSE [i \in 1..Len(config.Palette.Colors) |-> EntryBlockID(config.Palette.Colors[i])]

\* Where name b first appears in the scan.
FirstAppearance(b) ==
    CHOOSE i \in 1..Len(ScannedNames) :
        ScannedNames[i] = b /\ \A j \in 1..(i - 1) : ScannedNames[j] # b

\* C26: in the document of every export "minecraft:air" has index 0, the
\* names in the map are air and the names scanned, each other name has the
\* next unused index in order of first appearance, the indices are distinct
\* and are exactly 0..PaletteMax-1, and PaletteMax is the number of names.
C26_PaletteIndices ==
    pc \in {"exported", "imported"} =>
        LET bp == doc.Palette
            others == DOMAIN bp \ {"minecraft:air"}
        IN  /\ "minecraft:air" \in DOMAIN bp /\ bp["minecraft:air"] = 0
            /\ others = {ScannedNames[i] : i \in 1..Len(ScannedNames)} \ {"minecraft:air"}
            /\ \A b \in others :
                  bp[b] = 1 + Cardinality({c \in others :
                                              FirstAppearance(c) < FirstAppearance(b)})
            /\ \A b, c \in DOMAIN bp : bp[b] = bp[c] => b = c
            /\ {bp[b] : b \in DOMAIN bp} = 0..(doc.PaletteMax - 1)
            /\ doc.PaletteMax = Cardinality(DOMAIN bp)

\* An export with a palette in which a block name appears twice and another
\* name first appears after it.
C26_Witness ==
    /\ pc = "exported"
    /\ \E i, j, k \in 1..Len(ScannedNames) :
          /\ i < j /\ j < k
          /\ ScannedNames[i] # ScannedNames[j]
          /\ ScannedNames[k] = ScannedNames[i]
    /\ doc.PaletteMax < Len(ScannedNames) + 1

(***************************************************************************)
(* VOX export: determinism, chunk sizes, coordinates.                      *)
(***************************************************************************)
\* C27 as stated: two exports of one grid write the same bytes.
C27_VoxExportDeterministic ==
    pc = "voxedtwice" => voxFile2 = voxFile

\* The uint32 that four bytes encode, little-endian.
U32(b) == b[1] + 256 * b[2] + 65536 * b[3] + 16777216 * b[4]

\* The chunk header found at offset o of the file written (o bytes before
\* it): its id, declared content size and declared children size.
ChunkAt(o) ==
    [id |-> SubSeq(voxFile, o + 1, o + 4),
     contentSize |-> U32(SubSeq(voxFile, o + 5, o + 8)),
     childrenSize |-> U32(SubSeq(voxFile, o + 9, o + 12))]

\* C28 as stated: the file is "VOX ", 150, then MAIN holding SIZE, XYZI and
\* RGBA in that order; each chunk declares the length of its content, and
\* MAIN declares as children size the total length of the three chunks.
C28_ChunkSizes ==
    pc \in {"voxed", "voxedtwice", "voximported"} =>
        LET main == ChunkAt(8)
            size == ChunkAt(20)
            xyzi == ChunkAt(20 + 12 + size.contentSize)
            rgba == ChunkAt(20 + 12 + size.contentSize + 12 + xyzi.contentSize)
        IN  /\ SubSeq(voxFile, 1, 4) = MagicVOX
            /\ U32(SubSeq(voxFile, 5, 8)) = 150
            /\ main.id = IdMAIN /\ main.contentSize = 0
            /\ size.id = IdSIZE /\ size.contentSize = 12 /\ size.childrenSize = 0
            /\ xyzi.id = IdXYZI /\ xyzi.contentSize = 4 + 4 * Count(heap[grid])
            /\ xyzi.childrenSize = 0
            /\ rgba.id = IdRGBA /\ rgba.contentSize = 1024 /\ rgba.childrenSize = 0
            /\ Len(voxFile) = 20 + 12 + size.contentSize + 12 + xyzi.contentSize
                                 + 12 + rgba.contentSize
            /\ main.childrenSize = Len(voxFile) - 20

\* C29 as stated: the XYZI count is the number of occupied voxels, the
\* entries' (x, y, z) bytes are the voxels' coordinates, and different
\* voxels give different triples, whatever the grid's dimensions.
C29_CoordinatesLossless ==
    pc \in {"voxed", "voxedtwice", "voximported"} =>
        LET n == U32(SubSeq(voxFile, 57, 60))
        IN  /\ n = Count(heap[grid])
            /\ {SubSeq(XyziEntry(j), 1, 3) : j \in 1..n} = DOMAIN heap[grid].Voxels
            /\ \A i, j \in 1..n :
                  SubSeq(XyziEntry(i), 1, 3) = SubSeq(XyziEntry(j), 1, 3) => i = j

\* C30: every call of resolveTexture, on any block model and any table of
\* loaded models, returns (a texture path or the empty string): texture
\* variables that refer to themselves or to each other and parent chains
\* that form a cycle included.
C30_ResolveTextureTerminates == <>(tex.pc = "returned")

====
